---------------------------- MODULE Spec2Model ----------------------------
(*************************************************************************)
(* Meshtastic multi-client TCP proxy (src/proxy/multi_client_proxy.py).   *)
(*                                                                       *)
(* The specifications of this module:                                    *)
(*   SpecCodec  MeshtasticProtocolParser.add_data fed a byte stream in    *)
(*              arbitrary chunks;                                        *)
(*   Spec       the asyncio tasks of MultiClientProxy (radio read loop,   *)
(*              client handlers, response jobs) on one event loop, the    *)
(*              radio connected: an action is the code a task runs        *)
(*              between two suspension points (await of a socket, a       *)
(*              sleep, a held lock);                                      *)
(*   SpecGem    the same tasks with connections that stay up, over more   *)
(*              commands, channels, generator outcomes and packet ids;    *)
(*   SpecLink   start(), the loss of the radio connection and             *)
(*              reconnect_to_radio, with clients connecting, one of them  *)
(*              sending, and the radio sending;                           *)
(*   SpecLinkFair  SpecLink with the steps of the tasks taken when they   *)
(*              can be;                                                   *)
(*   SpecOrder  the radio read loop broadcasting two chunks to clients    *)
(*              that connect and disconnect;                              *)
(*   SpecJobs   two response jobs running together, SpecJobsFair with the  *)
(*              steps of the tasks taken when they can be, SpecJobsDrop   *)
(*              with the radio connection lost at any moment;             *)
(*   SpecStop   stop() called while the radio read loop broadcasts,       *)
(*              SpecStopFair likewise;                                    *)
(*   SpecAI     GeminiIntegration.process_message with AIHandler          *)
(*              (src/ai_handler.py): retries, length bounds, truncation.  *)
(*************************************************************************)
EXTENDS Integers, Sequences, FiniteSets, TLC

VARIABLES
    \* ---- SpecCodec: one parser and the stream fed to it
    cIn,        \* the whole byte sequence that will be fed
    cPos,       \* number of bytes of cIn fed so far
    cCalls,     \* number of add_data calls made, counted up to 2
    cBuf,       \* parser.buffer
    cOut,       \* frames returned so far, in order
    \* ---- Spec: MultiClientProxy
    clients,            \* self.clients: client id -> slot of its connection
    client_id_counter,  \* self.client_id_counter
    clients_lock,       \* self.clients_lock: [holder, waiters]
    radio_lock,         \* self.radio_lock: [holder, waiters]
    aiAvailable,        \* self.gemini.ai_handler is set
    blocking,           \* the task inside a synchronous call on the event-loop thread
    pc,                 \* task -> where it is suspended
    cid,                \* slot -> client_id of its handler (0: not assigned)
    data,               \* task -> the bytes it is forwarding / broadcasting
    todo,               \* task -> frames of the chunk still to be examined
    iter,               \* task -> client ids its broadcast loop has still to write
    disconnected,       \* task -> the broadcast's list of failed client ids
    rmId,               \* task -> argument of its _remove_client call
    jobArgs,            \* job -> text, channel of send_ai_response, the packet it
                        \*        built, what its send_to_radio returned; and,
                        \*        as history, the command's text,
                        \*        whether chat_respond was called for it and what
                        \*        it came back with
    nJobs,              \* number of response jobs created
    conn,               \* slot -> state of the client's TCP connection
    nReads,             \* number of chunks read from clients
    \* history of what was read and written (not program state)
    chunksIn,           \* reading task -> chunks it has read from its socket
    clientRx,           \* slot -> broadcasting task -> what it wrote to that client's writer
    radioTx,            \* sending task -> what it wrote to the radio writer
    regAtRecv,          \* registry ids when the last radio chunk was read
    snap,               \* task -> registry ids when its broadcast took the lock
    refBuf,             \* reading task -> buffer of a parser kept across its reads
    refGem,             \* reading task -> commands that parser has extracted
    gotGem,             \* reading task -> commands the handler has intercepted
    firstWrite,         \* radio socket -> kind of the first write made on it
    txSock,             \* task -> the radio socket of the write whose drain it awaits, 0: none
    \* ---- the radio link
    running,            \* self.running
    radio_connected,    \* self.radio_connected (asyncio.Event) is set
    sock,               \* the socket self.radio_reader / radio_writer belong to
                        \* (sockets are numbered as they are opened; 0: None)
    sockState,          \* radio socket -> "unused", "open", "eof", "reset", "closed"
    connector,          \* the task inside connect_to_radio, where it is, its backoff
    delays,             \* the delays the current reconnect_to_radio has slept
    handshakes,         \* radio socket -> the handshake frames written on it
    exitCode,           \* the exit status of the process, NotExited while it runs
    reconnects,         \* number of reconnect_to_radio tasks that have not returned
    \* ---- the generator client (AIHandler) under process_message
    aiPc,               \* "idle", "attempt" (inside chat_respond's loop), "returned", "handed"
    aiMessage,          \* the message process_message was called with
    attempt,            \* chat_respond's loop variable
    calls,              \* number of generate_content calls made
    slept,              \* the delays chat_respond has slept: time.sleep arguments
    raw,                \* the stripped first-try text that was used, <<>> if none
    aiOutcome,          \* what chat_respond returned or raised
    handed              \* what process_message returned to the response injector

codecVars == <<cIn, cPos, cCalls, cBuf, cOut>>

proxyVars == <<clients, client_id_counter, clients_lock, radio_lock, aiAvailable,
               blocking, pc, cid, data, todo, iter, disconnected, rmId, jobArgs,
               nJobs, conn, nReads, chunksIn, clientRx, radioTx,
               regAtRecv, snap, refBuf, refGem, gotGem, firstWrite, txSock>>

linkVars == <<running, radio_connected, sock, sockState, connector, delays, handshakes,
              exitCode, reconnects>>

aiVars == <<aiPc, aiMessage, attempt, calls, slept, raw, aiOutcome, handed>>

vars == <<codecVars, proxyVars, linkVars, aiVars>>

-----------------------------------------------------------------------------
(* Bounds of the model *)

MaxLen == 6         \* arbitrary byte streams fed to the codec: length
MaxGarbage == 3     \* garbage prefix before a built frame: length
MaxPayload == 2     \* payload of a built frame: length
MaxClients == 2     \* client connections accepted
MaxReads == 2       \* chunks read from clients, all clients together
MaxRadioChunks == 1 \* chunks read from the radio
MaxJobs == 1        \* response jobs created
MaxJobTasks == 2    \* response jobs created where several run together (SpecJobs)
MaxSockets == 3     \* radio connections opened, the first one included
MaxAttempts == 7    \* failed connection attempts in a row

-----------------------------------------------------------------------------
(* Frame codec: MeshtasticProtocolParser *)

MESHTASTIC_MAGIC == <<148, 195>>     \* b'\x94\xc3'
HEADER_SIZE == 4

\* The byte values streams are drawn from: the two magic bytes and two others
\* (0 and 1 also serve as length bytes).
ByteVals == {0, 1, 148, 195}

Drop(s, n) == SubSeq(s, n + 1, Len(s))      \* s[n:]
Take(s, n) == SubSeq(s, 1, n)               \* s[:n]

\* for i in range(len(buffer) - 1): if buffer[i:i+2] == MAGIC: magic_pos = i; break
\* (0-based position of the first magic pair, -1 when there is none)
FindMagicLast(buf) ==
    LET hits == {i \in 0..(Len(buf) - 2) : SubSeq(buf, i + 1, i + 2) = MESHTASTIC_MAGIC}
    IN  IF hits = {} THEN -1
        ELSE CHOOSE i \in hits : \A j \in hits : i >= j
FindMagic(buf) ==
    LET hits == {i \in 0..(Len(buf) - 2) : SubSeq(buf, i + 1, i + 2) = MESHTASTIC_MAGIC}
    IN  IF hits = {} THEN -1
        ELSE CHOOSE i \in hits : \A j \in hits : i <= j

\* No magic found: keep the last byte when it is the first magic byte, else clear
KeepTailClear(buf) == <<>>
KeepTail(buf) ==
    IF Len(buf) > 0 /\ buf[Len(buf)] = MESHTASTIC_MAGIC[1]
    THEN Drop(buf, Len(buf) - 1)
    ELSE <<>>

\* struct.unpack('>H', buffer[2:4])[0]
ParseLengthLittleEndian(buf) == buf[4] * 256 + buf[3]
ParseLength(buf) == buf[3] * 256 + buf[4]

\* The while loop of add_data, on the buffer after extend().
RECURSIVE ParseLoop(_, _)
ParseLoop(buf, frames) ==
    IF Len(buf) < HEADER_SIZE
    THEN [buffer |-> buf, frames |-> frames]
    ELSE IF Take(buf, 2) # MESHTASTIC_MAGIC
    THEN LET magic_pos == FindMagic(buf)
         IN  IF magic_pos = -1
             THEN [buffer |-> KeepTail(buf), frames |-> frames]
             ELSE ParseLoop(Drop(buf, magic_pos), frames)
    ELSE LET length == ParseLength(buf)
             total_size == HEADER_SIZE + length
         IN  IF Len(buf) < total_size
             THEN [buffer |-> buf, frames |-> frames]
             ELSE ParseLoop(Drop(buf, total_size),
                            Append(frames,
                                   [raw_frame |-> Take(buf, total_size),
                                    payload |-> SubSeq(buf, HEADER_SIZE + 1, total_size)]))

\* parser.add_data(data) on a parser whose buffer is buf:
\* the new buffer and the list of (raw_frame, payload) returned.
add_data(buf, chunk) == ParseLoop(buf \o chunk, <<>>)

\* header = MAGIC + struct.pack('>H', len(payload)); frame = header + payload
BuildFrame(payload) ==
    MESHTASTIC_MAGIC \o <<Len(payload) \div 256, Len(payload) % 256>> \o payload

-----------------------------------------------------------------------------
(* Texts: sequences of character codes *)

GEM_PREFIX == <<47, 103, 101, 109>>                    \* '/gem'
MSG_NO_AI == <<91, 71, 101, 109, 105, 110, 105, 32, 65, 73, 32, 110, 111, 116, 32, 97, 118, 97, 105, 108, 97, 98, 108, 101, 32, 45, 32, 71, 69, 77, 73, 78, 73, 95, 65, 80, 73, 95, 75, 69, 89, 32, 110, 111, 116, 32, 115, 101, 116, 93>>
    \* "[Gemini AI not available - GEMINI_API_KEY not set]"
MSG_NO_PROMPT == <<91, 80, 108, 101, 97, 115, 101, 32, 112, 114, 111, 118, 105, 100, 101, 32, 97, 32, 113, 117, 101, 115, 116, 105, 111, 110, 32, 97, 102, 116, 101, 114, 32, 47, 103, 101, 109, 93>>
    \* "[Please provide a question after /gem]"
AI_ERROR_OPEN == <<91, 65, 73, 32, 69, 114, 114, 111, 114, 58, 32>>       \* "[AI Error: "
AI_ERROR_CLOSE == <<93>>            \* "]"
None == <<-1>>                      \* Python's None where a text is expected

TextGemHi == <<47, 103, 101, 109, 32, 104, 105>>   \* "/gem hi"
TextHi == <<104, 105>>        \* "hi"
TextOk == <<111, 107>>        \* "ok"
TextFailed == <<65, 73, 32, 103, 101, 110, 101, 114, 97, 116, 105, 111, 110, 32, 102, 97, 105, 108, 101, 100, 32, 97, 102, 116, 101, 114, 32, 51, 32, 97, 116, 116, 101, 109, 112, 116, 115, 58, 32, 116, 105, 109, 101, 111, 117, 116>>
    \* "AI generation failed after 3 attempts: timeout"

\* str.startswith
StartsWith(s, p) == Len(s) >= Len(p) /\ Take(s, Len(p)) = p

\* str.strip(): ASCII whitespace removed at both ends
Whitespace == {9, 10, 11, 12, 13, 32}
RECURSIVE LStrip(_)
LStrip(s) == IF s # <<>> /\ Head(s) \in Whitespace THEN LStrip(Tail(s)) ELSE s
RECURSIVE RStrip(_)
RStrip(s) ==
    IF s # <<>> /\ s[Len(s)] \in Whitespace THEN RStrip(Take(s, Len(s) - 1)) ELSE s
Strip(s) == RStrip(LStrip(s))

-----------------------------------------------------------------------------
(* Payloads.  The protobuf codec (meshtastic.mesh_pb2) is a library; a payload *)
(* is modelled as the sequence of the fields the proxy reads or writes,        *)
(*   <<envelope, id, to, from, channel, want_ack, hop_limit, portnum>> \o body *)
(* each 32-bit field (id, to, from) taking two elements, its 16-bit halves;    *)
(* anything of another shape does not parse as a packet envelope.              *)

TO_RADIO_PACKET == 1        \* ToRadio with field 'packet'
FROM_RADIO_PACKET == 2      \* FromRadio with field 'packet'
TEXT_MESSAGE_APP == 1       \* portnums_pb2.TEXT_MESSAGE_APP
PACKET_FIELDS == 1 + 3 * 2 + 4  \* elements before the body in the layout above
HOP_LIMIT == 7

\* A 32-bit number: <<high half, low half>>
U32(hi, lo) == <<hi, lo>>
BROADCAST_ADDR == U32(65535, 65535)     \* 0xFFFFFFFF
Zero32 == U32(0, 0)

EncodePacket(envelope, p) ==
    <<envelope>> \o p.id \o p.to \o p.from
    \o <<p.channel, IF p.want_ack THEN 1 ELSE 0, p.hop_limit, p.portnum>> \o p.payload

HasPacket(payload, envelope) ==
    Len(payload) >= PACKET_FIELDS /\ payload[1] = envelope

DecodePacket(payload) ==
    [id |-> U32(payload[2], payload[3]), to |-> U32(payload[4], payload[5]),
     from |-> U32(payload[6], payload[7]),
     channel |-> payload[8], want_ack |-> payload[9] = 1,
     hop_limit |-> payload[10], portnum |-> payload[11],
     payload |-> Drop(payload, PACKET_FIELDS)]

\* f"!{from_id:08x}": the hexadecimal digits, as character codes
HexDigit(d) == IF d < 10 THEN 48 + d ELSE 87 + d
RECURSIVE Hex(_, _)
Hex(n, width) == IF width = 0 THEN <<>> ELSE Append(Hex(n \div 16, width - 1), HexDigit(n % 16))
SenderId(from_id, zero_name) ==
    IF from_id # Zero32 THEN <<33>> \o Hex(from_id[1], 4) \o Hex(from_id[2], 4) ELSE zero_name

NameClient == <<99, 108, 105, 101, 110, 116>>           \* "client"
NameUnknown == <<117, 110, 107, 110, 111, 119, 110>>    \* "unknown"

NoText == [ok |-> FALSE, sender_id |-> <<>>, channel |-> 0, text |-> <<>>]

\* try_parse_text_message: ToRadio first, then FromRadio; every failure is None
try_parse_text_message(payload) ==
    IF HasPacket(payload, TO_RADIO_PACKET)
       /\ DecodePacket(payload).portnum = TEXT_MESSAGE_APP
    THEN LET packet == DecodePacket(payload)
         IN  [ok |-> TRUE, sender_id |-> SenderId(packet.from, NameClient),
              channel |-> packet.channel, text |-> packet.payload]
    ELSE IF HasPacket(payload, FROM_RADIO_PACKET)
            /\ DecodePacket(payload).portnum = TEXT_MESSAGE_APP
    THEN LET packet == DecodePacket(payload)
         IN  [ok |-> TRUE, sender_id |-> SenderId(packet.from, NameUnknown),
              channel |-> packet.channel, text |-> packet.payload]
    ELSE NoText

-----------------------------------------------------------------------------
(* Command interceptor: GeminiIntegration.process_message *)

\* What ai_handler.chat_respond came back with: a reply, or an exception.
GenOutcomes == {[ok |-> TRUE, text |-> TextOk], [ok |-> FALSE, text |-> TextFailed]}
NoOutcome == [ok |-> FALSE, text |-> <<>>]

\* process_message reaches self.ai_handler.chat_respond(sender_id, prompt)
CallsGeneratorUnchecked(ai, message) ==
    /\ StartsWith(message, GEM_PREFIX)
    /\ Strip(Drop(message, Len(GEM_PREFIX))) # <<>>
CallsGenerator(ai, message) ==
    /\ StartsWith(message, GEM_PREFIX)
    /\ ai
    /\ Strip(Drop(message, Len(GEM_PREFIX))) # <<>>

\* process_message(sender_id, message), out being what chat_respond does when
\* it is called
process_messageWholeError(ai, message, out) ==
    IF ~StartsWith(message, GEM_PREFIX) THEN None
    ELSE IF ~ai THEN MSG_NO_AI
    ELSE IF Strip(Drop(message, Len(GEM_PREFIX))) = <<>> THEN MSG_NO_PROMPT
    ELSE IF out.ok THEN out.text
    ELSE AI_ERROR_OPEN \o out.text \o AI_ERROR_CLOSE
process_message(ai, message, out) ==
    IF ~StartsWith(message, GEM_PREFIX) THEN None
    ELSE IF ~ai THEN MSG_NO_AI
    ELSE IF Strip(Drop(message, Len(GEM_PREFIX))) = <<>> THEN MSG_NO_PROMPT
    ELSE IF out.ok THEN out.text
    ELSE AI_ERROR_OPEN \o Take(out.text, IF Len(out.text) < 100 THEN Len(out.text) ELSE 100)
         \o AI_ERROR_CLOSE

\* 'if response:' on an Optional[str]
Truthy(response) == response # None /\ response # <<>>

\* 'if parsed: ... if text.startswith("/gem")' of handle_client_data and
\* handle_radio_data: the frame is an intercepted command
IsCommand(frame) ==
    LET parsed == try_parse_text_message(frame.payload)
    IN  parsed.ok /\ StartsWith(parsed.text, GEM_PREFIX)

\* The 'for raw_frame, payload in frames' loop up to the first frame whose
\* command calls the generator (a synchronous call): the response jobs created
\* on the way, and the frames from that one on (none: the loop is over).
RECURSIVE Scan(_, _)
Scan(ai, frames) ==
    IF frames = <<>> THEN [spawn |-> <<>>, rest |-> <<>>]
    ELSE LET parsed == try_parse_text_message(Head(frames).payload)
         IN  IF ~IsCommand(Head(frames)) THEN Scan(ai, Tail(frames))
             ELSE IF CallsGenerator(ai, parsed.text) THEN [spawn |-> <<>>, rest |-> frames]
             ELSE LET response == process_message(ai, parsed.text, NoOutcome)
                      r == Scan(ai, Tail(frames))
                  IN  [spawn |-> (IF Truthy(response)
                                  THEN <<[text |-> response, channel |-> parsed.channel,
                                          trigger |-> parsed.text, called |-> FALSE,
                                          outcome |-> NoOutcome]>>
                                  ELSE <<>>) \o r.spawn,
                       rest |-> r.rest]

\* Number of commands among the frames (each creates at most one response job)
RECURSIVE CountCommands(_)
CountCommands(frames) ==
    IF frames = <<>> THEN 0
    ELSE (IF IsCommand(Head(frames)) THEN 1 ELSE 0) + CountCommands(Tail(frames))

-----------------------------------------------------------------------------
(* What clients and the radio send *)

TextPacket(from, channel, text) ==
    [id |-> U32(0, 5), to |-> BROADCAST_ADDR, from |-> from, channel |-> channel,
     want_ack |-> FALSE, hop_limit |-> 3, portnum |-> TEXT_MESSAGE_APP, payload |-> text]

GemFrame == BuildFrame(EncodePacket(TO_RADIO_PACKET, TextPacket(Zero32, 0, TextGemHi)))
HiFrame == BuildFrame(EncodePacket(TO_RADIO_PACKET, TextPacket(Zero32, 2, TextHi)))
OpaqueFrame == BuildFrame(<<3, 0>>)

\* A client sends a /gem frame, or a text frame followed by an opaque frame; the
\* /gem frame may reach the proxy in two reads, cut inside its payload.
GemHead == Take(GemFrame, HEADER_SIZE + 2)
GemTail == Drop(GemFrame, HEADER_SIZE + 2)

\* Chunks the next read of a client may return, after the chunks read so far
ClientChunks(history) ==
    IF history # <<>> /\ history[Len(history)] = GemHead
    THEN {GemTail}
    ELSE {GemFrame, GemHead, HiFrame \o OpaqueFrame}

RadioGemFrame == BuildFrame(EncodePacket(FROM_RADIO_PACKET, TextPacket(U32(0, 17), 1, TextGemHi)))
RadioHiFrame == BuildFrame(EncodePacket(FROM_RADIO_PACKET, TextPacket(U32(0, 17), 1, TextHi)))

\* Chunks a read of the radio socket may return.
RadioChunks == { RadioGemFrame, RadioHiFrame }

\* random.randint(1, 0xFFFFFFFF): the upper end of the range
PacketIds == {U32(65535, 65535)}

-----------------------------------------------------------------------------
(* Generator client: AIHandler (src/ai_handler.py) under                      *)
(* GeminiIntegration.process_message.  chat_respond is synchronous: it runs   *)
(* to its return, time.sleep included, without yielding to the event loop.    *)

max_retries == 3        \* self.max_retries
retry_delay == 1        \* self.retry_delay = 1.0: seconds
min_chars == 200        \* self.min_chars
max_chars == 600        \* self.max_chars

\* return "I'm having trouble responding right now. Please try again."
\* (the apostrophe is U+2019)
FALLBACK_TEXT == <<73, 8217, 109, 32, 104, 97, 118, 105, 110, 103, 32, 116, 114, 111, 117, 98, 108, 101, 32, 114, 101, 115, 112, 111, 110, 100, 105, 110, 103, 32, 114, 105, 103, 104, 116, 32, 110, 111, 119, 46, 32, 80, 108, 101, 97, 115, 101, 32, 116, 114, 121, 32, 97, 103, 97, 105, 110, 46>>
\* f"AI generation failed after {self.max_retries} attempts: {e}" up to {e}
FAILED_OPEN == <<65, 73, 32, 103, 101, 110, 101, 114, 97, 116, 105, 111, 110, 32, 102, 97, 105, 108, 101, 100, 32, 97, 102, 116, 101, 114, 32, 51, 32, 97, 116, 116, 101, 109, 112, 116, 115, 58, 32>>

\* Python's s[:n] for n >= 0
Prefix(s, n) == IF n < Len(s) THEN SubSeq(s, 1, n) ELSE s

\* _clean_whitespace: " ".join(s.split()).  Every run of whitespace becomes
\* one space, the runs at both ends disappear.
Dropped == -1
clean_whitespace(s) ==
    LET marked == [i \in 1..Len(s) |->
                     IF s[i] \notin Whitespace THEN s[i]
                     ELSE IF i > 1 /\ s[i - 1] \notin Whitespace THEN 32
                     ELSE Dropped]
        joined == SelectSeq(marked, LAMBDA c : c # Dropped)
    IN  IF s # <<>> /\ s[Len(s)] \in Whitespace /\ joined # <<>>
        THEN SubSeq(joined, 1, Len(joined) - 1)
        ELSE joined

\* The separators _trim_to_max_chars looks for: ". ", "! ", "? ", "\n", " - "
Boundaries == {<<46, 32>>, <<33, 32>>, <<63, 32>>, <<10>>, <<32, 45, 32>>}

\* s.rfind(p, 0, cutoff): the highest 0-based index at which p lies inside
\* s[0:cutoff], -1 when there is none
NotFound == -1
RFind(s, p, cutoff) ==
    LET end == IF cutoff < Len(s) THEN cutoff ELSE Len(s)
        at == {i \in 1..(end - Len(p) + 1) : SubSeq(s, i, i + Len(p) - 1) = p}
    IN  IF at = {} THEN NotFound ELSE (CHOOSE i \in at : \A j \in at : j <= i) - 1

\* candidates.append(idx + len(p.strip())) for the separators found
Candidates(s, cutoff) ==
    {RFind(s, p, cutoff) + Len(Strip(p)) : p \in {q \in Boundaries : RFind(s, q, cutoff) # NotFound}}

\* return s[:self.max_chars].rstrip()
HardCutLate(s) == RStrip(Prefix(s, max_chars + 1))
HardCut(s) == RStrip(Prefix(s, max_chars))

trim_to_max_charsEarliest(text) ==
    LET s == Strip(text)
        candidates == Candidates(s, max_chars)
    IN  IF Len(s) <= max_chars THEN s
        ELSE IF candidates # {}
        THEN Strip(Prefix(s, CHOOSE c \in candidates : \A d \in candidates : c <= d))
        ELSE HardCut(s)
\* _trim_to_max_chars
trim_to_max_chars(text) ==
    LET s == Strip(text)
        candidates == Candidates(s, max_chars)
    IN  IF Len(s) <= max_chars THEN s
        ELSE IF candidates # {}
        THEN Strip(Prefix(s, CHOOSE c \in candidates : \A d \in candidates : d <= c))
        ELSE HardCut(s)

\* resp = chat.send_message(expand_prompt): chat is the user_id string that
\* chat_respond passes, a str has no send_message, so the call raises
\* AttributeError
NoExpansion == [ok |-> FALSE, text |-> <<>>]

\* _ensure_length_bounds(chat, base_prompt, first_try_text), expansion being
\* what chat.send_message does when it is called: 'expanded =
\* self._clean_whitespace(expanded) or text', or the except clause, which
\* logs and leaves text as it is
ensure_length_bounds(first_try_text, expansion) ==
    LET text == clean_whitespace(first_try_text)
        expanded ==
            IF Len(text) < min_chars /\ expansion.ok
            THEN IF clean_whitespace(Strip(expansion.text)) # <<>>
                 THEN clean_whitespace(Strip(expansion.text))
                 ELSE text
            ELSE text
    IN  IF Len(expanded) > max_chars THEN trim_to_max_chars(expanded) ELSE expanded

\* No call of process_message is under way
AIIdle ==
    /\ aiPc = "idle"
    /\ aiMessage = <<>>
    /\ attempt = 0
    /\ calls = 0
    /\ slept = <<>>
    /\ raw = <<>>
    /\ aiOutcome = NoOutcome
    /\ handed = None

\* process_message(sender_id, message) is called: it returns None or a
\* diagnostic, or enters chat_respond ('if not self.client' is false: the
\* constructor sets the client or raises)
AiProcess(message) ==
    /\ aiPc = "idle"
    /\ aiMessage' = message
    /\ IF CallsGenerator(aiAvailable, message)
       THEN /\ aiPc' = "attempt"
            /\ UNCHANGED handed
       ELSE /\ aiPc' = "handed"
            /\ handed' = process_message(aiAvailable, message, NoOutcome)
    /\ UNCHANGED <<codecVars, proxyVars, linkVars, attempt, calls, slept, raw, aiOutcome>>

\* One turn of 'for attempt in range(self.max_retries)': generate_content
\* returns a response whose text is res.text (res.ok), or raises an exception
\* whose message is res.text
AiGenerate(res) ==
    /\ aiPc = "attempt"
    /\ calls' = calls + 1
    /\ IF res.ok
       THEN IF Strip(res.text) # <<>>
            THEN /\ raw' = Strip(res.text)
                 /\ aiOutcome' = [ok |-> TRUE, text |-> ensure_length_bounds(Strip(res.text), NoExpansion)]
                 /\ aiPc' = "returned"
                 /\ UNCHANGED <<attempt, slept>>
            ELSE IF attempt + 1 < max_retries
            THEN /\ attempt' = attempt + 1
                 /\ UNCHANGED <<raw, aiOutcome, aiPc, slept>>
            ELSE /\ aiOutcome' = [ok |-> TRUE, text |-> FALLBACK_TEXT]
                 /\ aiPc' = "returned"
                 /\ UNCHANGED <<attempt, raw, slept>>
       ELSE IF attempt < max_retries - 1
            THEN /\ slept' = Append(slept, retry_delay * (attempt + 1))
                 /\ attempt' = attempt + 1
                 /\ UNCHANGED <<raw, aiOutcome, aiPc>>
            ELSE /\ aiOutcome' = [ok |-> FALSE, text |-> FAILED_OPEN \o res.text]
                 /\ aiPc' = "returned"
                 /\ UNCHANGED <<attempt, raw, slept>>
    /\ UNCHANGED <<codecVars, proxyVars, linkVars, aiMessage, handed>>

\* process_message: 'return response', or the except clause's
\* f"[AI Error: {str(e)[:100]}]"
AiReturn ==
    /\ aiPc = "returned"
    /\ handed' = process_message(aiAvailable, aiMessage, aiOutcome)
    /\ aiPc' = "handed"
    /\ UNCHANGED <<codecVars, proxyVars, linkVars, aiMessage, attempt, calls, slept, raw,
                   aiOutcome>>

-----------------------------------------------------------------------------
(* Tasks of the event loop *)

Slots == 1..MaxClients
JobIds == 1..MaxJobTasks

NoTask == <<"none", 0>>
RadioTask == <<"radio", 0>>             \* radio_reader_task
Handler(i) == <<"client", i>>           \* handle_client of the i-th connection
Job(j) == <<"job", j>>                  \* the j-th send_ai_response task
StopTask == <<"stop", 0>>               \* the task awaiting stop()

Handlers == {Handler(i) : i \in Slots}
Jobs == {Job(j) : j \in JobIds}
Tasks == {RadioTask, StopTask} \cup Handlers \cup Jobs
Readers == {RadioTask} \cup Handlers
Senders == Handlers \cup Jobs            \* tasks that call send_to_radio
Broadcasters == {RadioTask} \cup Jobs    \* tasks that call broadcast_to_clients

\* The event loop runs a task only while no task is inside a synchronous call.
LoopFree == blocking = NoTask

(* asyncio.Lock: acquire() returns at once when the lock is free and nobody   *)
(* waits, else the caller queues; release() wakes the first waiter, which     *)
(* takes the lock before any later acquire() (waiters are served in order).   *)
(* The lock has no owner and is not reentrant.                                *)
FreeLock == [holder |-> NoTask, waiters |-> <<>>]
IsFree(l) == l.holder = NoTask
Taken(t) == [holder |-> t, waiters |-> <<>>]
Enqueue(l, t) == [l EXCEPT !.waiters = Append(@, t)]
Release(l) ==
    IF l.waiters = <<>> THEN FreeLock
    ELSE [holder |-> Head(l.waiters), waiters |-> Tail(l.waiters)]
\* t was handed the lock and is not queued on it
Holds(l, t) == l.holder = t /\ \A k \in 1..Len(l.waiters) : l.waiters[k] # t

\* self.clients.items(): insertion order, which is the order of the ids
RECURSIVE Ascending(_)
Ascending(S) ==
    IF S = {} THEN <<>>
    ELSE LET m == CHOOSE x \in S : \A y \in S : x <= y
         IN  <<m>> \o Ascending(S \ {m})

Without(f, k) == [x \in DOMAIN f \ {k} |-> f[x]]
With(f, k, v) == [x \in DOMAIN f \cup {k} |-> IF x = k THEN v ELSE f[x]]

NoPacket == [id |-> Zero32, to |-> Zero32, from |-> Zero32, channel |-> 0, want_ack |-> FALSE,
             hop_limit |-> 0, portnum |-> 0, payload |-> <<>>]
NoJob == [text |-> <<>>, channel |-> 0, packet |-> NoPacket, trigger |-> <<>>, called |-> FALSE,
          outcome |-> [ok |-> FALSE, text |-> <<>>], sent |-> "none"]

\* parser = MeshtasticProtocolParser(); frames = parser.add_data(data)
ParseChunk(d) == add_data(<<>>, d).frames

\* The raw frames of a chunk, one after the other
RECURSIVE RawFrames(_)
RawFrames(frames) ==
    IF frames = <<>> THEN <<>> ELSE Head(frames).raw_frame \o RawFrames(Tail(frames))

\* handle_client_data: 'await self.send_to_radio(data)', the chunk as it was read
ClientForwardFrames(d) == RawFrames(ParseChunk(d))
ClientForward(d) == d

\* broadcast_to_clients: 'for client_id, client in self.clients.items()', no
\* caller passing exclude_id
BroadcastTargetsButFirst(reg) ==
    IF DOMAIN reg = {} THEN <<>> ELSE Tail(Ascending(DOMAIN reg))
BroadcastTargets(reg) == Ascending(DOMAIN reg)

\* Radio sockets, in the order they are opened
Sockets == 1..MaxSockets

TO_RADIO_WANT_CONFIG == 3   \* ToRadio with field 'want_config_id'
\* to_radio.want_config_id = id; MAGIC + length + to_radio.SerializeToString()
WantConfigFrame(id) == BuildFrame(<<TO_RADIO_WANT_CONFIG>> \o id)

\* The task awaiting connect_to_radio()
NoConnector == [task |-> "none", pc |-> "none", backoff |-> 0]

ProxyInit ==
    /\ clients = <<>>
    /\ client_id_counter = 0
    /\ clients_lock = FreeLock
    /\ radio_lock = FreeLock
    /\ aiAvailable \in BOOLEAN
    /\ blocking = NoTask
    /\ pc = [t \in Tasks |-> IF t = RadioTask THEN "read"
                             ELSE IF t \in Handlers THEN "idle" ELSE "none"]
    /\ cid = [i \in Slots |-> 0]
    /\ data = [t \in Tasks |-> <<>>]
    /\ todo = [t \in Tasks |-> <<>>]
    /\ iter = [t \in Tasks |-> <<>>]
    /\ disconnected = [t \in Tasks |-> <<>>]
    /\ rmId = [t \in Tasks |-> 0]
    /\ jobArgs = [j \in JobIds |-> NoJob]
    /\ nJobs = 0
    /\ conn = [i \in Slots |-> "none"]
    /\ nReads = 0
    /\ chunksIn = [t \in Readers |-> <<>>]
    /\ clientRx = [i \in Slots |-> [t \in Broadcasters |-> <<>>]]
    /\ radioTx = [t \in Senders |-> <<>>]
    /\ txSock = [t \in Senders |-> 0]
    /\ regAtRecv = {}
    /\ snap = [t \in Tasks |-> {}]
    /\ refBuf = [t \in Readers |-> <<>>]
    /\ refGem = [t \in Readers |-> 0]
    /\ gotGem = [t \in Readers |-> 0]

\* asyncio.run(main()) has not returned
NotExited == -1

\* start() has connected to the radio: the first socket is open, its handshake
\* written, the ready latch set, the read loop and the server started
LinkEstablished ==
    /\ running = TRUE
    /\ radio_connected = TRUE
    /\ sock = 1
    /\ sockState = [g \in Sockets |-> IF g = 1 THEN "open" ELSE "unused"]
    /\ connector = NoConnector
    /\ delays = <<>>
    /\ handshakes = [g \in Sockets |-> IF g = 1 THEN <<WantConfigFrame(U32(0, 1))>> ELSE <<>>]
    /\ firstWrite = [g \in Sockets |-> IF g = 1 THEN "hs" ELSE "none"]
    /\ exitCode = NotExited
    /\ reconnects = 0

\* start() has returned from connect_to_radio with True: the server accepts
Serving == running /\ sock # 0 /\ connector.task # "start"

\* radio_reader_task is past 'await self.radio_connected.wait()' and its read
\* returns data
RadioReadable == radio_connected /\ sock # 0 /\ sockState[sock] = "open"

-----------------------------------------------------------------------------
(* Calls that take a lock.  When the lock is free the caller goes on without  *)
(* suspending; else it queues and goes on in a later step, once handed the    *)
(* lock.  pcBase is pc as the calling step has changed it so far.             *)

WriteToRadioFirst(t, bytes) ==
    /\ radioTx' = [radioTx EXCEPT ![t] = <<bytes>> \o @]
    /\ firstWrite' = [firstWrite EXCEPT ![sock] = IF @ = "none" THEN "data" ELSE @]
    /\ txSock' = [txSock EXCEPT ![t] = sock]
\* self.radio_writer.write(bytes): on the socket the writer belongs to, after
\* the bytes written before; the caller then awaits drain()
WriteToRadio(t, bytes) ==
    /\ radioTx' = [radioTx EXCEPT ![t] = Append(@, bytes)]
    /\ firstWrite' = [firstWrite EXCEPT ![sock] = IF @ = "none" THEN "data" ELSE @]
    /\ txSock' = [txSock EXCEPT ![t] = sock]

\* send_to_radio(data): 'async with self.radio_lock' up to 'await drain()'.
\* radio_writer is set before the first client is accepted and never unset.
CallSend(t, bytes, pcBase) ==
    IF IsFree(radio_lock)
    THEN /\ radio_lock' = Taken(t)
         /\ WriteToRadio(t, bytes)
         /\ pc' = [pcBase EXCEPT ![t] = "rl_drain"]
    ELSE /\ radio_lock' = Enqueue(radio_lock, t)
         /\ pc' = [pcBase EXCEPT ![t] = "rl_lock"]
         /\ UNCHANGED <<radioTx, firstWrite, txSock>>

\* broadcast_to_clients(data): 'async with self.clients_lock', disconnected = [],
\* and the iteration over self.clients.items() begins
CallBroadcast(t, pcBase) ==
    IF IsFree(clients_lock)
    THEN /\ clients_lock' = Taken(t)
         /\ iter' = [iter EXCEPT ![t] = BroadcastTargets(clients)]
         /\ snap' = [snap EXCEPT ![t] = DOMAIN clients]
         /\ disconnected' = [disconnected EXCEPT ![t] = <<>>]
         /\ pc' = [pcBase EXCEPT ![t] = "bc_write"]
    ELSE /\ clients_lock' = Enqueue(clients_lock, t)
         /\ pc' = [pcBase EXCEPT ![t] = "bc_lock"]
         /\ UNCHANGED <<iter, snap, disconnected>>

\* _remove_client, with the lock l held: pop the client and close its writer,
\* then 'await client.writer.wait_closed()' with the lock still held; a client
\* that is not registered: the lock is released at once.
RemoveHolding(t, id, l) ==
    IF id \in DOMAIN clients
    THEN /\ clients' = Without(clients, id)
         /\ conn' = [conn EXCEPT ![clients[id]] = "closed"]
         /\ clients_lock' = l
         /\ pc' = [pc EXCEPT ![t] = "rm_closing"]
    ELSE /\ clients_lock' = Release(l)
         /\ pc' = [pc EXCEPT ![t] = IF t \in Handlers THEN "done" ELSE "bc_write"]
         /\ UNCHANGED <<clients, conn>>

\* _remove_client(client_id): 'async with self.clients_lock'
CallRemove(t, id) ==
    /\ rmId' = [rmId EXCEPT ![t] = id]
    /\ IF IsFree(clients_lock)
       THEN RemoveHolding(t, id, Taken(t))
       ELSE /\ clients_lock' = Enqueue(clients_lock, t)
            /\ pc' = [pc EXCEPT ![t] = "rm_lock"]
            /\ UNCHANGED <<clients, conn>>

\* self.client_id_counter += 1; client_id = self.client_id_counter
NextClientIdByCount(counter, reg) == Cardinality(DOMAIN reg) + 1
NextClientId(counter, reg) == counter + 1

\* handle_client: 'await self.radio_connected.wait()' returns at once when
\* the latch is set, else the handler waits for it before its first read
AfterRegisterNoWait(latch) == "read"
AfterRegister(latch) == IF latch THEN "read" ELSE "wait_radio"

\* handle_client under the lock: the next id, the registry entry; then
\* 'await self.radio_connected.wait()', which returns at once when the latch
\* is set, and the handler waits for the client's first bytes
RegisterHolding(i, l) ==
    /\ client_id_counter' = client_id_counter + 1
    /\ cid' = [cid EXCEPT ![i] = NextClientId(client_id_counter, clients)]
    /\ clients' = With(clients, NextClientId(client_id_counter, clients), i)
    /\ clients_lock' = Release(l)
    /\ pc' = [pc EXCEPT ![Handler(i)] = AfterRegister(radio_connected)]

-----------------------------------------------------------------------------
(* Steps of the tasks *)

MAX_BODY == 200         \* trimmed = text[:200]
DEFAULT_CHANNEL_INDEX == 2
NoChannel == -1         \* channel: int = None

\* use_channel = channel if channel is not None else self.channel_index
UseChannelIfTruthy(channel) == IF channel # NoChannel /\ channel # 0 THEN channel ELSE DEFAULT_CHANNEL_INDEX
UseChannel(channel) == IF channel # NoChannel THEN channel ELSE DEFAULT_CHANNEL_INDEX

\* text[:n]
Clip(text, n) == Take(text, IF Len(text) < n THEN Len(text) ELSE n)

\* After the frames loop has run as far as Scan says: the response jobs are
\* created (asyncio.create_task); then either the generator is called for the
\* next command, synchronously on the event-loop thread, or the loop is over
\* and the chunk is forwarded: send_to_radio(data) / broadcast_to_clients(data).
AfterScan(t, spawn, rest, bytes) ==
    LET new == (nJobs + 1)..(nJobs + Len(spawn))
        pcBase == [u \in Tasks |-> IF \E j \in new : u = Job(j) THEN "delay" ELSE pc[u]]
    IN  /\ nJobs' = nJobs + Len(spawn)
        /\ jobArgs' = [j \in JobIds |->
                         IF j \in new
                         THEN [text |-> spawn[j - nJobs].text,
                               channel |-> spawn[j - nJobs].channel,
                               packet |-> NoPacket,
                               trigger |-> spawn[j - nJobs].trigger,
                               called |-> spawn[j - nJobs].called,
                               outcome |-> spawn[j - nJobs].outcome,
                               sent |-> "none"]
                         ELSE jobArgs[j]]
        /\ IF rest # <<>>
           THEN /\ blocking' = t
                /\ todo' = [todo EXCEPT ![t] = rest]
                /\ pc' = [pcBase EXCEPT ![t] = "gen"]
                /\ UNCHANGED <<clients_lock, radio_lock, radioTx, firstWrite, txSock, iter, snap, disconnected>>
           ELSE /\ blocking' = NoTask
                /\ todo' = [todo EXCEPT ![t] = <<>>]
                /\ IF t = RadioTask
                   THEN CallBroadcast(t, pcBase) /\ UNCHANGED <<radio_lock, radioTx, firstWrite, txSock>>
                   ELSE CallSend(t, bytes, pcBase)
                        /\ UNCHANGED <<clients_lock, iter, snap, disconnected>>

\* What a reading task's step leaves alone
ReaderFrame == <<clients, client_id_counter, aiAvailable, cid, rmId, conn, clientRx>>

\* The history of a read: the chunk, and what a parser kept across the reads of
\* this socket extracts from it
NoteRead(t, d) ==
    LET ref == add_data(refBuf[t], d)
    IN  /\ chunksIn' = [chunksIn EXCEPT ![t] = Append(@, d)]
        /\ refBuf' = [refBuf EXCEPT ![t] = ref.buffer]
        /\ refGem' = [refGem EXCEPT ![t] = @ + CountCommands(ref.frames)]
        /\ gotGem' = [gotGem EXCEPT ![t] = @ + CountCommands(ParseChunk(d))]

\* asyncio.start_server accepts a connection: handle_client runs up to its read
Connect(i) ==
    /\ LoopFree
    /\ Serving
    /\ conn[i] = "none"
    /\ \A k \in 1..(i - 1) : conn[k] # "none"
    /\ conn' = [conn EXCEPT ![i] = "open"]
    /\ IF IsFree(clients_lock)
       THEN RegisterHolding(i, Taken(Handler(i)))
       ELSE /\ clients_lock' = Enqueue(clients_lock, Handler(i))
            /\ pc' = [pc EXCEPT ![Handler(i)] = "acc_lock"]
            /\ UNCHANGED <<clients, client_id_counter, cid>>
    /\ UNCHANGED <<codecVars, aiVars, linkVars, radio_lock, aiAvailable, blocking, data, todo, iter,
                   disconnected, rmId, jobArgs, nJobs, nReads, chunksIn, clientRx,
                   radioTx, firstWrite, txSock, regAtRecv, snap, refBuf, refGem, gotGem>>

\* handle_client is handed the registry lock it queued for
AccBegin(i) ==
    /\ LoopFree
    /\ pc[Handler(i)] = "acc_lock"
    /\ Holds(clients_lock, Handler(i))
    /\ RegisterHolding(i, clients_lock)
    /\ UNCHANGED <<codecVars, aiVars, linkVars, radio_lock, aiAvailable, blocking, data, todo, iter,
                   disconnected, rmId, jobArgs, nJobs, conn, nReads, chunksIn,
                   clientRx, radioTx, firstWrite, txSock, regAtRecv, snap, refBuf, refGem, gotGem>>

\* The client's peer: it closes its sending side (the proxy's read meets EOF),
\* or the connection is lost (reads fail, and so does drain() after a write)
PeerClose(i) ==
    /\ conn[i] = "open"
    /\ conn' = [conn EXCEPT ![i] = "eof"]
    /\ UNCHANGED <<codecVars, aiVars, linkVars, clients, client_id_counter, clients_lock, radio_lock,
                   aiAvailable, blocking, pc, cid, data, todo, iter, disconnected,
                   rmId, jobArgs, nJobs, nReads, chunksIn, clientRx, radioTx, firstWrite, txSock,
                   regAtRecv, snap, refBuf, refGem, gotGem>>

PeerReset(i) ==
    /\ conn[i] \in {"open", "eof"}
    /\ conn' = [conn EXCEPT ![i] = "reset"]
    /\ UNCHANGED <<codecVars, aiVars, linkVars, clients, client_id_counter, clients_lock, radio_lock,
                   aiAvailable, blocking, pc, cid, data, todo, iter, disconnected,
                   rmId, jobArgs, nJobs, nReads, chunksIn, clientRx, radioTx, firstWrite, txSock,
                   regAtRecv, snap, refBuf, refGem, gotGem>>

\* handle_client: reader.read(4096) returns d; handle_client_data(client, d)
ClientRecv(i, d) ==
    LET t == Handler(i)
        s == Scan(aiAvailable, ParseChunk(d))
    IN  /\ LoopFree
        /\ pc[t] = "read"
        /\ conn[i] = "open"
        /\ nReads < MaxReads
        /\ CountCommands(ParseChunk(d)) <= MaxJobs - nJobs
        /\ nReads' = nReads + 1
        /\ data' = [data EXCEPT ![t] = ClientForward(d)]
        /\ NoteRead(t, d)
        /\ AfterScan(t, s.spawn, s.rest, ClientForward(d))
        /\ UNCHANGED <<codecVars, aiVars, linkVars, ReaderFrame, regAtRecv>>

\* handle_client: the read times out after 60 s: 'continue'
ClientTimeout(i) ==
    /\ LoopFree
    /\ pc[Handler(i)] = "read"
    /\ conn[i] = "open"
    /\ UNCHANGED vars

\* handle_client: the read returns b'' or raises: 'finally: _remove_client'
ClientEof(i) ==
    /\ LoopFree
    /\ pc[Handler(i)] = "read"
    /\ conn[i] \in {"eof", "reset", "closed"}
    /\ CallRemove(Handler(i), cid[i])
    /\ UNCHANGED <<codecVars, aiVars, linkVars, client_id_counter, radio_lock, aiAvailable, blocking,
                   cid, data, todo, iter, disconnected, jobArgs, nJobs, nReads,
                   chunksIn, clientRx, radioTx, firstWrite, txSock, regAtRecv, snap, refBuf, refGem, gotGem>>

\* radio_reader_task: radio_reader.read(4096) returns d; handle_radio_data(d).
\* The radio sends at most cap chunks, with at most jobs commands in all.
RadioRecvWithin(d, cap, jobs) ==
    LET t == RadioTask
        s == Scan(aiAvailable, ParseChunk(d))
    IN  /\ LoopFree
        /\ pc[t] = "read"
        /\ RadioReadable
        /\ Len(chunksIn[t]) < cap
        /\ CountCommands(ParseChunk(d)) <= jobs - nJobs
        /\ regAtRecv' = DOMAIN clients
        /\ data' = [data EXCEPT ![t] = d]
        /\ NoteRead(t, d)
        /\ AfterScan(t, s.spawn, s.rest, d)
        /\ UNCHANGED <<codecVars, aiVars, linkVars, ReaderFrame, nReads>>

RadioRecv(d) == RadioRecvWithin(d, MaxRadioChunks, MaxJobs)

\* gemini.process_message returns from ai_handler.chat_respond: the response
\* job is created and the frames loop goes on
GenReturn(t, out) ==
    LET parsed == try_parse_text_message(Head(todo[t]).payload)
        response == process_message(aiAvailable, parsed.text, out)
        s == Scan(aiAvailable, Tail(todo[t]))
        first == IF Truthy(response)
                 THEN <<[text |-> response, channel |-> parsed.channel,
                         trigger |-> parsed.text, called |-> TRUE,
                         outcome |-> out]>>
                 ELSE <<>>
    IN  /\ pc[t] = "gen"
        /\ blocking = t
        /\ AfterScan(t, first \o s.spawn, s.rest, data[t])
        /\ UNCHANGED <<codecVars, aiVars, linkVars, ReaderFrame, regAtRecv, nReads, data, chunksIn,
                       refBuf, refGem, gotGem>>

\* send_to_radio is handed the radio lock it queued for: write, then drain
RlWrite(t) ==
    /\ LoopFree
    /\ pc[t] = "rl_lock"
    /\ Holds(radio_lock, t)
    /\ WriteToRadio(t, data[t])
    /\ pc' = [pc EXCEPT ![t] = "rl_drain"]
    /\ UNCHANGED <<codecVars, aiVars, linkVars, clients, client_id_counter, clients_lock, radio_lock,
                   aiAvailable, blocking, cid, data, todo, iter, disconnected, rmId,
                   jobArgs, nJobs, conn, nReads, chunksIn, clientRx, regAtRecv, snap,
                   refBuf, refGem, gotGem>>

\* from_radio.packet.CopyFrom(mesh_packet)
ClientPacketNoId(mesh_packet) == [mesh_packet EXCEPT !.id = Zero32]
ClientPacket(mesh_packet) == mesh_packet

\* What send_to_radio returns to task t: False ("failed") when the write or its
\* drain raised, the connection written to being lost; else True ("ok")
SendResult(t) ==
    IF txSock[t] # 0 /\ sockState[txSock[t]] = "reset" THEN "failed" ELSE "ok"

\* send_ai_response: 'if await self.send_to_radio(frame): logger.info(...)
\* else: logger.error(...)', and the broadcast follows in both cases
BroadcastsAfterSendOnlyIfSent(sent) == sent = "ok"
BroadcastsAfterSend(sent) == TRUE

\* send_to_radio returns: the lock is released.  A handler goes back to its
\* read; a response job builds the FromRadio frame of the same packet and calls
\* broadcast_to_clients(client_frame).
RlDone(t) ==
    /\ LoopFree
    /\ pc[t] = "rl_drain"
    /\ radio_lock' = Release(radio_lock)
    /\ txSock' = [txSock EXCEPT ![t] = 0]
    /\ IF t \in Handlers
       THEN /\ pc' = [pc EXCEPT ![t] = "read"]
            /\ data' = [data EXCEPT ![t] = <<>>]
            /\ UNCHANGED <<clients_lock, iter, snap, disconnected, jobArgs>>
       ELSE /\ jobArgs' = [jobArgs EXCEPT ![t[2]].sent = SendResult(t)]
            /\ IF BroadcastsAfterSend(SendResult(t))
               THEN /\ data' = [data EXCEPT ![t] =
                                  BuildFrame(EncodePacket(FROM_RADIO_PACKET,
                                                         ClientPacket(jobArgs[t[2]].packet)))]
                    /\ CallBroadcast(t, pc)
               ELSE /\ pc' = [pc EXCEPT ![t] = "done"]
                    /\ data' = [data EXCEPT ![t] = <<>>]
                    /\ UNCHANGED <<clients_lock, iter, snap, disconnected>>
    /\ UNCHANGED <<codecVars, aiVars, linkVars, clients, client_id_counter, aiAvailable, blocking, cid,
                   todo, rmId, nJobs, conn, nReads, chunksIn, clientRx,
                   radioTx, firstWrite, regAtRecv, refBuf, refGem, gotGem>>

\* broadcast_to_clients is handed the registry lock it queued for
BcBegin(t) ==
    /\ LoopFree
    /\ pc[t] = "bc_lock"
    /\ Holds(clients_lock, t)
    /\ iter' = [iter EXCEPT ![t] = BroadcastTargets(clients)]
    /\ snap' = [snap EXCEPT ![t] = DOMAIN clients]
    /\ disconnected' = [disconnected EXCEPT ![t] = <<>>]
    /\ pc' = [pc EXCEPT ![t] = "bc_write"]
    /\ UNCHANGED <<codecVars, aiVars, linkVars, clients, client_id_counter, clients_lock, radio_lock,
                   aiAvailable, blocking, cid, data, todo, rmId, jobArgs, nJobs, conn,
                   nReads, chunksIn, clientRx, radioTx, firstWrite, txSock, regAtRecv, refBuf, refGem, gotGem>>

\* The write to a client fails when its connection is lost
WriteFails(slot) == conn[slot] \in {"reset", "closed"}

\* client.writer.write(data): the bytes follow those written before on the
\* connection
SocketWriteFirst(sent, bytes) == <<bytes>> \o sent
SocketWrite(sent, bytes) == Append(sent, bytes)

\* broadcast_to_clients: client.writer.write(data); await client.writer.drain()
\* for the next client (no caller passes exclude_id); a failure puts the id on
\* the disconnected list and the loop goes on
BcWrite(t) ==
    /\ LoopFree
    /\ pc[t] = "bc_write"
    /\ iter[t] # <<>>
    /\ LET id == Head(iter[t])
           slot == clients[id]
       IN  IF WriteFails(slot)
           THEN /\ disconnected' = [disconnected EXCEPT ![t] = Append(@, id)]
                /\ UNCHANGED clientRx
           ELSE /\ clientRx' = [clientRx EXCEPT ![slot][t] = SocketWrite(@, data[t])]
                /\ UNCHANGED disconnected
    /\ iter' = [iter EXCEPT ![t] = Tail(@)]
    /\ UNCHANGED <<codecVars, aiVars, linkVars, clients, client_id_counter, clients_lock, radio_lock,
                   aiAvailable, blocking, pc, cid, data, todo, rmId, jobArgs, nJobs,
                   conn, nReads, chunksIn, radioTx, firstWrite, txSock, regAtRecv, snap, refBuf, refGem,
                   gotGem>>

\* broadcast_to_clients after the loop, still inside 'async with clients_lock':
\* 'for client_id in disconnected: await self._remove_client(client_id)';
\* with nothing (left) to remove the lock is released and the call returns
BcEnd(t) ==
    /\ LoopFree
    /\ pc[t] = "bc_write"
    /\ iter[t] = <<>>
    /\ IF disconnected[t] = <<>>
       THEN /\ clients_lock' = Release(clients_lock)
            /\ pc' = [pc EXCEPT ![t] = IF t = RadioTask THEN "read" ELSE "done"]
            /\ data' = [data EXCEPT ![t] = <<>>]
            /\ UNCHANGED <<clients, conn, rmId, disconnected>>
       ELSE /\ CallRemove(t, Head(disconnected[t]))
            /\ disconnected' = [disconnected EXCEPT ![t] = Tail(@)]
            /\ UNCHANGED data
    /\ UNCHANGED <<codecVars, aiVars, linkVars, client_id_counter, radio_lock, aiAvailable, blocking,
                   cid, todo, iter, jobArgs, nJobs, nReads, chunksIn, clientRx,
                   radioTx, firstWrite, txSock, regAtRecv, snap, refBuf, refGem, gotGem>>

\* _remove_client is handed the registry lock it queued for
RmBegin(t) ==
    /\ LoopFree
    /\ pc[t] = "rm_lock"
    /\ Holds(clients_lock, t)
    /\ RemoveHolding(t, rmId[t], clients_lock)
    /\ UNCHANGED <<codecVars, aiVars, linkVars, client_id_counter, radio_lock, aiAvailable, blocking,
                   cid, data, todo, iter, disconnected, rmId, jobArgs, nJobs, nReads,
                   chunksIn, clientRx, radioTx, firstWrite, txSock, regAtRecv, snap, refBuf, refGem, gotGem>>

\* _remove_client: wait_closed() returns (or raises: 'except: pass'); the lock
\* is released
RmDone(t) ==
    /\ LoopFree
    /\ pc[t] = "rm_closing"
    /\ clients_lock' = Release(clients_lock)
    /\ pc' = [pc EXCEPT ![t] = IF t \in Handlers THEN "done" ELSE "bc_write"]
    /\ rmId' = [rmId EXCEPT ![t] = 0]
    /\ UNCHANGED <<codecVars, aiVars, linkVars, clients, client_id_counter, radio_lock, aiAvailable,
                   blocking, cid, data, todo, iter, disconnected, jobArgs, nJobs, conn,
                   nReads, chunksIn, clientRx, radioTx, firstWrite, txSock, regAtRecv, snap, refBuf,
                   refGem, gotGem>>

\* send_ai_response after 'await asyncio.sleep(self.response_delay)': the text
\* is clipped, the packet built with a random id, framed in a ToRadio envelope
\* and passed to send_to_radio
JobSend(j, id) ==
    LET t == Job(j)
        text == jobArgs[j].text
        trimmed == Clip(text, MAX_BODY)
        mesh_packet == [id |-> id, to |-> BROADCAST_ADDR, from |-> Zero32,
                        channel |-> UseChannel(jobArgs[j].channel), want_ack |-> TRUE,
                        hop_limit |-> HOP_LIMIT, portnum |-> TEXT_MESSAGE_APP,
                        payload |-> trimmed]
        frame == BuildFrame(EncodePacket(TO_RADIO_PACKET, mesh_packet))
    IN  /\ LoopFree
        /\ pc[t] = "delay"
        /\ jobArgs' = [jobArgs EXCEPT ![j].packet = mesh_packet]
        /\ data' = [data EXCEPT ![t] = frame]
        /\ CallSend(t, frame, pc)
        /\ UNCHANGED <<codecVars, aiVars, linkVars, clients, client_id_counter, clients_lock, aiAvailable,
                       blocking, cid, todo, iter, disconnected, rmId, nJobs, conn,
                       nReads, chunksIn, clientRx, regAtRecv, snap, refBuf, refGem,
                       gotGem>>

ProxyNext ==
    \/ \E i \in Slots : Connect(i)
    \/ \E i \in Slots : AccBegin(i)
    \/ \E i \in Slots : PeerClose(i)
    \/ \E i \in Slots : PeerReset(i)
    \/ \E i \in Slots : \E d \in ClientChunks(chunksIn[Handler(i)]) : ClientRecv(i, d)
    \/ \E i \in Slots : ClientTimeout(i)
    \/ \E i \in Slots : ClientEof(i)
    \/ \E d \in RadioChunks : RadioRecv(d)
    \/ \E t \in Readers, out \in GenOutcomes : GenReturn(t, out)
    \/ \E t \in Handlers \cup Jobs : RlWrite(t)
    \/ \E t \in Handlers \cup Jobs : RlDone(t)
    \/ \E t \in {RadioTask} \cup Jobs : BcBegin(t)
    \/ \E t \in {RadioTask} \cup Jobs : BcWrite(t)
    \/ \E t \in {RadioTask} \cup Jobs : BcEnd(t)
    \/ \E t \in Tasks : RmBegin(t)
    \/ \E t \in Tasks : RmDone(t)
    \/ \E j \in JobIds, id \in PacketIds : JobSend(j, id)

CodecIdle == cIn = <<>> /\ cPos = 0 /\ cCalls = 0 /\ cBuf = <<>> /\ cOut = <<>>

Init == ProxyInit /\ CodecIdle /\ AIIdle /\ LinkEstablished

Spec == Init /\ [][ProxyNext]_vars

-----------------------------------------------------------------------------
(* SpecGem: the command interceptor and the response injector over a wider  *)
(* range of commands and generator outcomes, with connections that stay up.  *)

TextGemBlank == GEM_PREFIX \o <<32, 9, 32>>     \* "/gem \t "
\* a reply longer than the injector's limit, a failure message longer than
\* the interceptor's
LongReply == [n \in 1..(MAX_BODY + 50) |-> 97 + (n % 26)]
LongFailure == [n \in 1..(Len(MSG_NO_AI) * 3) |-> 65 + (n % 26)]

GemTexts == {GEM_PREFIX, TextGemBlank, TextGemHi}
GemChannels == {0, DEFAULT_CHANNEL_INDEX + 1}

\* A frame that holds no text record and whose payload ends with the bytes of
\* a command frame; it may reach the proxy in two reads, cut after the first
\* byte of its payload
CarrierFrame == BuildFrame(<<3, 0>> \o GemFrame)
CarrierHead == Take(CarrierFrame, HEADER_SIZE + 1)
CarrierTail == Drop(CarrierFrame, HEADER_SIZE + 1)

\* What the next read of a client returns, after the chunks read so far: a
\* command on one of the channels, a text that is not a command, or the
\* carrier frame, whole or in two reads
GemClientChunks(history) ==
    IF history # <<>> /\ history[Len(history)] = CarrierHead
    THEN {CarrierTail}
    ELSE { BuildFrame(EncodePacket(TO_RADIO_PACKET, TextPacket(Zero32, c, m))) :
             c \in GemChannels, m \in GemTexts }
         \cup {HiFrame, CarrierFrame, CarrierHead}

\* What the radio sends: a command of a node, or a text that is not a command
GemRadioChunks ==
    { BuildFrame(EncodePacket(FROM_RADIO_PACKET, TextPacket(U32(0, 17), 0, m))) :
        m \in GemTexts } \cup {RadioHiFrame}

\* chat_respond returns a text of at least one character, or raises
GemOutcomes ==
    { [ok |-> TRUE, text |-> TextOk], [ok |-> TRUE, text |-> LongReply],
      [ok |-> FALSE, text |-> TextFailed], [ok |-> FALSE, text |-> LongFailure] }

\* random.randint(1, 0xFFFFFFFF): both ends of the range
GemPacketIds == {U32(0, 1), U32(65535, 65535)}

GemNext ==
    \/ \E i \in Slots : Connect(i)
    \/ \E i \in Slots : AccBegin(i)
    \/ \E d \in GemClientChunks(chunksIn[Handler(1)]) : ClientRecv(1, d)
    \/ \E d \in GemRadioChunks : RadioRecv(d)
    \/ \E t \in Readers, out \in GemOutcomes : GenReturn(t, out)
    \/ \E t \in Handlers \cup Jobs : RlWrite(t)
    \/ \E t \in Handlers \cup Jobs : RlDone(t)
    \/ \E t \in {RadioTask} \cup Jobs : BcBegin(t)
    \/ \E t \in {RadioTask} \cup Jobs : BcWrite(t)
    \/ \E t \in {RadioTask} \cup Jobs : BcEnd(t)
    \/ \E j \in JobIds, id \in GemPacketIds : JobSend(j, id)

SpecGem == Init /\ [][GemNext]_vars

-----------------------------------------------------------------------------
(* The radio sending several chunks to clients that come and go.              *)

MaxOrderChunks == 2     \* chunks read from the radio

RadioOkFrame == BuildFrame(EncodePacket(FROM_RADIO_PACKET, TextPacket(U32(0, 17), 1, TextOk)))
OrderChunks == {RadioHiFrame, RadioOkFrame}

OrderNext ==
    \/ \E i \in Slots : Connect(i)
    \/ \E i \in Slots : AccBegin(i)
    \/ \E i \in Slots : PeerClose(i)
    \/ \E i \in Slots : PeerReset(i)
    \/ \E i \in Slots : ClientEof(i)
    \/ \E d \in OrderChunks : RadioRecvWithin(d, MaxOrderChunks, MaxJobs)
    \/ BcBegin(RadioTask)
    \/ BcWrite(RadioTask)
    \/ BcEnd(RadioTask)
    \/ \E t \in {RadioTask} \cup Handlers : RmBegin(t)
    \/ \E t \in {RadioTask} \cup Handlers : RmDone(t)

SpecOrder == Init /\ [][OrderNext]_vars

-----------------------------------------------------------------------------
(* The radio link: start(), connect_to_radio, _send_want_config,              *)
(* reconnect_to_radio and the end-of-stream branch of radio_reader_task.      *)

RC_FIRST_DELAY == 1         \* backoff = 1
RC_MAX_DELAY == 30          \* min(backoff * 2, 30)

\* backoff = min(backoff * 2, 30)
NextBackoffUncapped(backoff) == backoff * 2
NextBackoff(backoff) ==
    IF backoff * 2 < RC_MAX_DELAY THEN backoff * 2 ELSE RC_MAX_DELAY

\* random.randint(1, 0xFFFFFFFF): both ends of the range
WantConfigIdsFromZero == {Zero32, U32(65535, 65535)}
WantConfigIds == {U32(0, 1), U32(65535, 65535)}

\* MultiClientProxy() constructed, start() not yet called
LinkConstructed ==
    /\ running = FALSE
    /\ radio_connected = FALSE
    /\ sock = 0
    /\ sockState = [g \in Sockets |-> "unused"]
    /\ connector = NoConnector
    /\ delays = <<>>
    /\ handshakes = [g \in Sockets |-> <<>>]
    /\ firstWrite = [g \in Sockets |-> "none"]
    /\ exitCode = NotExited
    /\ reconnects = 0

\* start(): self.running = True; await self.connect_to_radio(), which waits in
\* asyncio.open_connection
Start ==
    /\ ~running
    /\ sock = 0
    /\ connector = NoConnector
    /\ running' = TRUE
    /\ connector' = [task |-> "start", pc |-> "connecting", backoff |-> 0]
    /\ UNCHANGED <<codecVars, aiVars, proxyVars, radio_connected, sock, sockState, delays,
                   handshakes, exitCode, reconnects>>

\* connect_to_radio: open_connection returns; radio_reader and radio_writer
\* are the new socket's; _send_want_config builds the handshake with a random
\* id and writes it, then waits in drain()
ConnectOk(id) ==
    /\ LoopFree
    /\ connector.pc = "connecting"
    /\ sock < MaxSockets
    /\ sock' = sock + 1
    /\ sockState' = [sockState EXCEPT ![sock + 1] = "open"]
    /\ handshakes' = [handshakes EXCEPT ![sock + 1] = Append(@, WantConfigFrame(id))]
    /\ firstWrite' = [firstWrite EXCEPT ![sock + 1] = IF @ = "none" THEN "hs" ELSE @]
    /\ connector' = [connector EXCEPT !.pc = "hs_drain"]
    /\ UNCHANGED <<codecVars, aiVars, clients, client_id_counter, clients_lock, radio_lock,
                   aiAvailable, blocking, pc, cid, data, todo, iter, disconnected,
                   rmId, jobArgs, nJobs, conn, nReads, chunksIn, clientRx, radioTx,
                   txSock, regAtRecv, snap, refBuf, refGem, gotGem,
                   running, radio_connected, delays, exitCode, reconnects>>

\* asyncio.run(main()) returns without an exception: the interpreter exits
\* with status 0
EXIT_OK == 0

\* the exit status after start() has logged "Failed to connect to radio,
\* exiting" and returned: main() runs 'finally: await proxy.stop()' and
\* returns, nothing calls sys.exit
ExitAfterFailedStart == EXIT_OK

\* connect_to_radio: open_connection fails or times out after 10 s: False.
\* start() returns at once, main()'s finally runs stop() (running = False, no
\* client, no radio writer to close) and the process ends;
\* reconnect_to_radio doubles its backoff up to the cap and sleeps again.
ConnectFails ==
    /\ LoopFree
    /\ connector.pc = "connecting"
    /\ IF connector.task = "start"
       THEN /\ connector' = [connector EXCEPT !.pc = "failed"]
            /\ running' = FALSE
            /\ exitCode' = ExitAfterFailedStart
            /\ UNCHANGED delays
       ELSE /\ Len(delays) <= MaxAttempts
            /\ connector' = [connector EXCEPT !.pc = "sleep",
                                              !.backoff = NextBackoff(connector.backoff)]
            /\ delays' = Append(delays, NextBackoff(connector.backoff))
            /\ UNCHANGED <<running, exitCode>>
    /\ UNCHANGED <<codecVars, aiVars, proxyVars, radio_connected, sock, sockState,
                   handshakes, reconnects>>

\* _send_want_config: drain() returns, or raises ('except: log'); then
\* connect_to_radio sets the latch and returns True.  start() goes on to
\* create the read loop and the server; reconnect_to_radio returns.
HandshakeDrained ==
    /\ LoopFree
    /\ connector.pc = "hs_drain"
    /\ radio_connected' = TRUE
    /\ connector' = NoConnector
    /\ reconnects' = IF connector.task = "reconnect" THEN reconnects - 1 ELSE reconnects
    /\ UNCHANGED <<codecVars, aiVars, proxyVars, running, sock, sockState, delays, handshakes,
                   exitCode>>

\* reconnect_to_radio: 'await asyncio.sleep(backoff)' is over; 'await
\* self.connect_to_radio()' waits in open_connection
Slept ==
    /\ LoopFree
    /\ running
    /\ connector.pc = "sleep"
    /\ connector' = [connector EXCEPT !.pc = "connecting"]
    /\ UNCHANGED <<codecVars, aiVars, proxyVars, running, radio_connected, sock, sockState,
                   delays, handshakes, exitCode, reconnects>>

\* The radio closes the connection (reads meet end of stream), or the
\* connection is lost (reads raise)
LinkDrop(how) ==
    /\ sock # 0
    /\ sock < MaxSockets
    /\ sockState[sock] = "open"
    /\ sockState' = [sockState EXCEPT ![sock] = how]
    /\ UNCHANGED <<codecVars, aiVars, proxyVars, running, radio_connected, sock, connector,
                   delays, handshakes, exitCode, reconnects>>

\* radio_reader_task: the registry after 'radio_connected.clear();
\* create_task(reconnect_to_radio()); continue' (nothing touches it)
ClientsDropped(reg) == <<>>
ClientsKept(reg) == reg

\* radio_reader_task: 'await self.radio_connected.wait()' has returned, the
\* loop is at its read
ReaderPastLatchAlways == TRUE
ReaderPastLatch == radio_connected

\* radio_reader_task: read() returns b'' or raises: the latch is cleared and
\* reconnect_to_radio is started, which clears the latch, sets backoff = 1 and
\* sleeps; the read loop waits for the latch

RadioLost ==
    /\ LoopFree
    /\ pc[RadioTask] = "read"
    /\ ReaderPastLatch
    /\ sock # 0
    /\ sockState[sock] \in {"eof", "reset"}
    /\ radio_connected' = FALSE
    /\ connector' = [task |-> "reconnect", pc |-> "sleep", backoff |-> RC_FIRST_DELAY]
    /\ delays' = <<RC_FIRST_DELAY>>
    /\ reconnects' = reconnects + 1
    /\ clients' = ClientsKept(clients)
    /\ UNCHANGED <<codecVars, aiVars, client_id_counter, clients_lock, radio_lock,
                   aiAvailable, blocking, pc, cid, data, todo, iter, disconnected,
                   rmId, jobArgs, nJobs, conn, nReads, chunksIn, clientRx, radioTx,
                   regAtRecv, snap, refBuf, refGem, gotGem, firstWrite, txSock,
                   running, sock, sockState, handshakes, exitCode>>

\* handle_client: 'await self.radio_connected.wait()' returns
HandlerReady(i) ==
    /\ LoopFree
    /\ pc[Handler(i)] = "wait_radio"
    /\ radio_connected
    /\ pc' = [pc EXCEPT ![Handler(i)] = "read"]
    /\ UNCHANGED <<codecVars, aiVars, linkVars, clients, client_id_counter, clients_lock,
                   radio_lock, aiAvailable, blocking, cid, data, todo, iter,
                   disconnected, rmId, jobArgs, nJobs, conn, nReads, chunksIn,
                   clientRx, radioTx, firstWrite, txSock, regAtRecv, snap, refBuf, refGem, gotGem>>

LinkNext ==
    \/ Start
    \/ \E id \in WantConfigIds : ConnectOk(id)
    \/ ConnectFails
    \/ HandshakeDrained
    \/ Slept
    \/ \E how \in {"eof", "reset"} : LinkDrop(how)
    \/ RadioLost
    \/ \E i \in Slots : Connect(i)
    \/ \E i \in Slots : HandlerReady(i)
    \/ ClientRecv(1, HiFrame)
    \/ RlDone(Handler(1))
    \/ RadioRecv(RadioHiFrame)
    \/ BcWrite(RadioTask)
    \/ BcEnd(RadioTask)
    \/ PeerReset(1)
    \/ ClientEof(1)
    \/ \E t \in {RadioTask, Handler(1)} : RmBegin(t)
    \/ \E t \in {RadioTask, Handler(1)} : RmDone(t)
    \/ BcBegin(RadioTask)
    \/ \E i \in Slots : AccBegin(i)

LinkInit == ProxyInit /\ CodecIdle /\ AIIdle /\ LinkConstructed /\ aiAvailable = FALSE

SpecLink == LinkInit /\ [][LinkNext]_vars

\* The steps of the tasks are taken when they can be (the event loop runs every
\* ready task; a sleep, a drain, a close end), and a connection attempt
\* succeeds when it is not made to fail; what clients and the radio send, and
\* the loss of a connection, are up to them.
LinkFairness ==
    /\ WF_vars(\E id \in WantConfigIds : ConnectOk(id))
    /\ WF_vars(HandshakeDrained)
    /\ WF_vars(Slept)
    /\ WF_vars(RadioLost)
    /\ WF_vars(\E i \in Slots : HandlerReady(i))
    /\ WF_vars(RlDone(Handler(1)))
    /\ WF_vars(BcBegin(RadioTask))
    /\ WF_vars(BcWrite(RadioTask))
    /\ WF_vars(BcEnd(RadioTask))
    /\ WF_vars(ClientEof(1))
    /\ WF_vars(\E t \in {RadioTask, Handler(1)} : RmBegin(t))
    /\ WF_vars(\E t \in {RadioTask, Handler(1)} : RmDone(t))
    /\ WF_vars(\E i \in Slots : AccBegin(i))

SpecLinkFair == LinkInit /\ [][LinkNext]_vars /\ LinkFairness

-----------------------------------------------------------------------------
(* SpecJobs: several response jobs running together.  The radio delivers one  *)
(* chunk holding two commands; each gets its own send_ai_response task.       *)
(* Clients come and go meanwhile.                                              *)

\* Two commands of a node in one read of the radio socket
TwoCommands == RadioGemFrame \o RadioGemFrame
JobsChunks == {TwoCommands}
\* chat_respond returns a text
JobsOutcomes == {[ok |-> TRUE, text |-> TextOk]}

JobsNext ==
    \/ \E i \in Slots : Connect(i)
    \/ \E i \in Slots : AccBegin(i)
    \/ \E i \in Slots : PeerReset(i)
    \/ \E i \in Slots : ClientEof(i)
    \/ \E d \in JobsChunks : RadioRecvWithin(d, MaxRadioChunks, MaxJobTasks)
    \/ \E out \in JobsOutcomes : GenReturn(RadioTask, out)
    \/ \E t \in Jobs : RlWrite(t)
    \/ \E t \in Jobs : RlDone(t)
    \/ \E t \in Broadcasters : BcBegin(t)
    \/ \E t \in Broadcasters : BcWrite(t)
    \/ \E t \in Broadcasters : BcEnd(t)
    \/ \E t \in Tasks : RmBegin(t)
    \/ \E t \in Tasks : RmDone(t)
    \/ \E j \in JobIds, id \in PacketIds : JobSend(j, id)

SpecJobs == Init /\ [][JobsNext]_vars

\* SpecJobsDrop: the same, the radio connection being lost at any moment
JobsDropNext == JobsNext \/ LinkDrop("reset")
SpecJobsDrop == Init /\ [][JobsDropNext]_vars

\* The event loop runs every task that is ready: the generator returns, a
\* sleep ends, a lock is handed on, a write or a close finishes
JobsFairness ==
    /\ WF_vars(\E out \in JobsOutcomes : GenReturn(RadioTask, out))
    /\ \A t \in Jobs : WF_vars(RlWrite(t)) /\ WF_vars(RlDone(t))
    /\ \A t \in Broadcasters : WF_vars(BcBegin(t)) /\ WF_vars(BcWrite(t)) /\ WF_vars(BcEnd(t))
    /\ \A t \in Tasks : WF_vars(RmBegin(t)) /\ WF_vars(RmDone(t))
    /\ \A i \in Slots : WF_vars(ClientEof(i)) /\ WF_vars(AccBegin(i))
    /\ \A j \in JobIds : WF_vars(\E id \in PacketIds : JobSend(j, id))

SpecJobsFair == SpecJobs /\ JobsFairness
-----------------------------------------------------------------------------
(* SpecStop: stop() called at any moment (main()'s 'finally', or the task the *)
(* GUI creates for it) while the radio read loop broadcasts to clients that   *)
(* come and go.  No connection is accepted after stop() has been called.      *)

\* stop(): 'for client in self.clients.values(): client.writer.close()'
CloseAll(reg, c) ==
    [i \in Slots |-> IF \E id \in DOMAIN reg : reg[id] = i THEN "closed" ELSE c[i]]

\* stop() inside 'async with self.clients_lock': every registered client's
\* writer is closed (no await in the loop), the lock is released; then
\* 'if self.radio_writer: self.radio_writer.close(); await wait_closed()'
StopHolding(l) ==
    /\ conn' = CloseAll(clients, conn)
    /\ clients_lock' = Release(l)
    /\ IF sock # 0
       THEN /\ sockState' = [sockState EXCEPT ![sock] = "closed"]
            /\ pc' = [pc EXCEPT ![StopTask] = "stop_radio"]
       ELSE /\ pc' = [pc EXCEPT ![StopTask] = "done"]
            /\ UNCHANGED sockState

\* What a step of stop() leaves alone
StopFrame == <<clients, client_id_counter, radio_lock, aiAvailable, blocking, cid, data,
               todo, iter, disconnected, rmId, jobArgs, nJobs, nReads, chunksIn,
               clientRx, radioTx, regAtRecv, snap, refBuf, refGem, gotGem,
               firstWrite, txSock, radio_connected, sock, connector, delays,
               handshakes, exitCode, reconnects>>

\* stop() is called: 'self.running = False', then it takes the registry lock
\* or queues for it
StopCall ==
    /\ LoopFree
    /\ pc[StopTask] = "none"
    /\ running
    /\ running' = FALSE
    /\ IF IsFree(clients_lock)
       THEN StopHolding(Taken(StopTask))
       ELSE /\ clients_lock' = Enqueue(clients_lock, StopTask)
            /\ pc' = [pc EXCEPT ![StopTask] = "stop_lock"]
            /\ UNCHANGED <<conn, sockState>>
    /\ UNCHANGED <<codecVars, aiVars, StopFrame>>

\* stop() is handed the registry lock it queued for
StopBegin ==
    /\ LoopFree
    /\ pc[StopTask] = "stop_lock"
    /\ Holds(clients_lock, StopTask)
    /\ StopHolding(clients_lock)
    /\ UNCHANGED <<codecVars, aiVars, StopFrame, running>>

\* stop(): radio_writer.wait_closed() returns (or raises: 'except: pass') and
\* stop() returns
StopDone ==
    /\ LoopFree
    /\ pc[StopTask] = "stop_radio"
    /\ pc' = [pc EXCEPT ![StopTask] = "done"]
    /\ UNCHANGED <<codecVars, aiVars, StopFrame, running, clients_lock, conn, sockState>>

StopChunks == {RadioHiFrame}

StopNext ==
    \/ \E i \in Slots : Connect(i)
    \/ \E i \in Slots : AccBegin(i)
    \/ \E i \in Slots : PeerReset(i)
    \/ \E i \in Slots : ClientEof(i)
    \/ \E d \in StopChunks : RadioRecv(d)
    \/ BcBegin(RadioTask)
    \/ BcWrite(RadioTask)
    \/ BcEnd(RadioTask)
    \/ \E t \in {RadioTask} \cup Handlers : RmBegin(t)
    \/ \E t \in {RadioTask} \cup Handlers : RmDone(t)
    \/ StopCall
    \/ StopBegin
    \/ StopDone

SpecStop == Init /\ [][StopNext]_vars

\* The event loop runs every task that is ready
StopFairness ==
    /\ WF_vars(BcBegin(RadioTask)) /\ WF_vars(BcWrite(RadioTask)) /\ WF_vars(BcEnd(RadioTask))
    /\ \A t \in {RadioTask} \cup Handlers : WF_vars(RmBegin(t)) /\ WF_vars(RmDone(t))
    /\ \A i \in Slots : WF_vars(ClientEof(i)) /\ WF_vars(AccBegin(i))
    /\ WF_vars(StopBegin) /\ WF_vars(StopDone)

SpecStopFair == SpecStop /\ StopFairness
-----------------------------------------------------------------------------
(* process_message and chat_respond over generator replies of lengths around  *)
(* the two limits, with and without separators, and over failing calls.       *)

MaxTail == 100      \* characters of a generated text after its separator

Letters(n) == [i \in 1..n |-> 97 + (i % 26)]
Joined(a, sep, b) == Letters(a) \o sep \o Letters(b)

\* response.text of generate_content
RawTexts ==
    { <<32, 10>>, Letters(1), Letters(min_chars - 1), Letters(min_chars),
      Letters(max_chars), Letters(max_chars + 1), Letters(max_chars + MaxTail),
      Joined(min_chars, <<46, 32>>, 1) \o <<33, 32>> \o Letters(max_chars) }
    \cup { Joined(a, sep, b) :
             a \in {1, min_chars, max_chars - 2, max_chars - 1},
             sep \in Boundaries \cup {<<32>>, <<32, 9, 32>>},
             b \in {MaxTail, max_chars} }

\* str(e) of the exception generate_content raises
FailureMessages == {<<116, 105, 109, 101, 111, 117, 116>>, LongFailure}

AiResults ==
    {[ok |-> TRUE, text |-> t] : t \in RawTexts}
    \cup {[ok |-> FALSE, text |-> m] : m \in FailureMessages}

AiMessages == {TextGemHi, TextGemBlank, TextHi}

AINext ==
    \/ \E m \in AiMessages : AiProcess(m)
    \/ \E res \in AiResults : AiGenerate(res)
    \/ AiReturn

AIInit == ProxyInit /\ CodecIdle /\ LinkEstablished /\ AIIdle

SpecAI == AIInit /\ [][AINext]_vars

-----------------------------------------------------------------------------
(* SpecCodec: a stream fed to one parser in arbitrary chunks *)

RECURSIVE SeqsUpTo(_, _)
SeqsUpTo(S, n) ==
    IF n = 0 THEN {<<>>}
    ELSE LET shorter == SeqsUpTo(S, n - 1)
         IN  shorter \cup {Append(s, x) : s \in {t \in shorter : Len(t) = n - 1}, x \in S}

HasMagic(s) == FindMagic(s) # -1

\* A payload longer than 255 bytes, so that the high length byte is used.
LongPayload == [i \in 1..(256 + 2) |-> (i % 2)]

GarbageSet == {g \in SeqsUpTo(ByteVals, MaxGarbage) : ~HasMagic(g)}
PayloadSet == SeqsUpTo(ByteVals, MaxPayload)

CodecInputs ==
    SeqsUpTo(ByteVals, MaxLen)
    \cup {g \o BuildFrame(p) : g \in GarbageSet, p \in PayloadSet}
    \cup {BuildFrame(LongPayload)}

CodecInit ==
    /\ ProxyInit
    /\ LinkEstablished
    /\ AIIdle
    /\ aiAvailable
    /\ cIn \in CodecInputs
    /\ cPos = 0
    /\ cCalls = 0
    /\ cBuf = <<>>
    /\ cOut = <<>>

\* One add_data call with the next n bytes of the stream.
Feed(n) ==
    LET r == add_data(cBuf, SubSeq(cIn, cPos + 1, cPos + n))
    IN  /\ cPos' = cPos + n
        /\ cCalls' = IF cCalls < 2 THEN cCalls + 1 ELSE cCalls
        /\ cBuf' = r.buffer
        /\ cOut' = cOut \o r.frames
        /\ UNCHANGED <<cIn, proxyVars, linkVars, aiVars>>

CodecNext == \E n \in 1..(Len(cIn) - cPos) : Feed(n)

SpecCodec == CodecInit /\ [][CodecNext]_vars

-----------------------------------------------------------------------------
(* Claims about the frame codec, checked under SpecCodec *)

\* C8 Incrementality: whatever the split of the stream into add_data calls, the
\* frames returned so far by the one parser are the frames a single add_data call
\* on a fresh parser returns for the bytes fed so far, in the same order.
C8_Incrementality == cOut = add_data(<<>>, Take(cIn, cPos)).frames

\* several calls were made, the last one completing a frame begun in an earlier one
C8_Witness ==
    /\ cCalls = 2
    /\ cPos = Len(cIn)
    /\ Len(cOut) >= 1
    /\ cBuf = <<>>
    /\ add_data(<<>>, Take(cIn, cPos - 1)).frames # cOut

IsGarbageThenFrame(s, g, p) == s = g \o BuildFrame(p) /\ ~HasMagic(g)

\* C9 Resync: when the whole stream garbage + frame(p), garbage holding no magic
\* pair, has been fed to the fresh parser in one add_data call, exactly one frame
\* was returned and its payload is p.
C9_Resync ==
    (cCalls = 1 /\ cPos = Len(cIn)) =>
        \A k \in 0..Len(cIn) :
            \A n \in 0..(Len(cIn) - k - HEADER_SIZE) :
                LET g == Take(cIn, k)
                    p == SubSeq(cIn, k + HEADER_SIZE + 1, k + HEADER_SIZE + n)
                IN  IsGarbageThenFrame(cIn, g, p) =>
                        /\ Len(cOut) = 1
                        /\ cOut[1].payload = p

\* garbage ending in the first magic byte, a payload holding the magic pair
C9_Witness ==
    /\ cCalls = 1
    /\ cPos = Len(cIn)
    /\ \E g \in GarbageSet, p \in PayloadSet :
          /\ IsGarbageThenFrame(cIn, g, p)
          /\ Len(g) = MaxGarbage
          /\ g[Len(g)] = MESHTASTIC_MAGIC[1]
          /\ HasMagic(p)
          /\ cOut = <<[raw_frame |-> BuildFrame(p), payload |-> p]>>

\* C10 Round trip: when magic + big-endian uint16(len(p)) + p has been fed to the
\* fresh parser in one add_data call, exactly one (raw_frame, payload) pair was
\* returned, with payload = p and raw_frame = the whole input, and the buffer is
\* empty.
C10_RoundTrip ==
    (cCalls = 1 /\ cPos = Len(cIn)) =>
        \A p \in PayloadSet \cup {LongPayload} :
            cIn = MESHTASTIC_MAGIC \o <<Len(p) \div 256, Len(p) % 256>> \o p =>
                /\ cOut = <<[raw_frame |-> cIn, payload |-> p]>>
                /\ cBuf = <<>>

\* the payload longer than 255 bytes went round
C10_Witness ==
    /\ cCalls = 1
    /\ cPos = Len(cIn)
    /\ cIn = MESHTASTIC_MAGIC \o <<1, 2>> \o LongPayload
    /\ cOut = <<[raw_frame |-> cIn, payload |-> LongPayload]>>
    /\ cBuf = <<>>

-----------------------------------------------------------------------------
(* Claims about the proxy, checked under Spec *)

\* The slot of the connection that was given client id k
SlotOf(k) == CHOOSE i \in Slots : cid[i] = k

Last(s) == s[Len(s)]
IsPrefix(s, t) == Len(s) <= Len(t) /\ s = SubSeq(t, 1, Len(s))
IsSuffix(s, t) == Len(s) <= Len(t) /\ s = SubSeq(t, Len(t) - Len(s) + 1, Len(t))

\* C1 Error isolation: when a broadcast has met a failed write and waits for the
\* registry lock to remove that client while other clients are registered, the
\* lock is in the hands of another task, one that will release it: the
\* broadcasting task (the radio read loop) goes on to deliver later broadcasts
\* to the other clients.
C1_OthersStillServed ==
    \A t \in Broadcasters :
        (pc[t] = "rm_lock" /\ DOMAIN clients \ {rmId[t]} # {}) => clients_lock.holder # t

\* C2 Removal after broadcast: when a broadcast in which the write to client k
\* failed calls _remove_client(k), the call can take the registry lock (at once,
\* or once its present holder releases it), so that k leaves the registry and
\* the broadcast returns.
C2_BroadcastReturns ==
    \A t \in Broadcasters : \A k \in DOMAIN clients :
        (pc[t] = "rm_lock" /\ rmId[t] = k /\ clients_lock.holder = t) => ENABLED RmBegin(t)

\* The radio read loop has read a chunk and its broadcast has returned (no write
\* of it failed: a broadcast with a failed write does not return)
RadioBroadcastDone == pc[RadioTask] = "read" /\ chunksIn[RadioTask] # <<>>

\* The radio read loop has written to client k its latest chunk, and before it
\* nothing but the chunks that preceded it, unmodified
WrittenLatest(k) ==
    LET got == clientRx[SlotOf(k)][RadioTask]
    IN  got # <<>> /\ IsSuffix(got, chunksIn[RadioTask])

C4_ForwardedOnce ==
    \A t \in Handlers :
        /\ IsPrefix(radioTx[t], chunksIn[t])
        /\ Len(radioTx[t]) =
             Len(chunksIn[t]) - (IF pc[t] \in {"gen", "rl_lock"} THEN 1 ELSE 0)

\* one client's chunk was a /gem command, for which the generator was called and
\* a response job created; the other's a text frame followed by a frame whose
\* payload does not decode; both chunks are written, and the handlers read on
C4_Witness ==
    /\ aiAvailable /\ nJobs = 1
    /\ chunksIn[Handler(1)] = <<GemFrame>> /\ radioTx[Handler(1)] = <<GemFrame>>
    /\ chunksIn[Handler(2)] = <<HiFrame \o OpaqueFrame>>
    /\ radioTx[Handler(2)] = <<HiFrame \o OpaqueFrame>>
    /\ \A t \in Handlers : pc[t] = "read"

\* The chunk a reading task is handling has been forwarded: written to the radio
\* writer (a client's chunk), written to every registered client (a radio chunk)
Forwarded(t) ==
    IF t = RadioTask
    THEN \A k \in DOMAIN clients :
            LET got == clientRx[clients[k]][t]
            IN  got # <<>> /\ Last(got) = data[t]
    ELSE Len(radioTx[t]) = Len(chunksIn[t])

\* C5 Out-of-band processing: while the generator is being called for a /gem
\* command, the chunk that carried the command has already been forwarded.
C5_ForwardedBeforeGenerator ==
    \A t \in Readers : pc[t] = "gen" => Forwarded(t)

\* C6 Generator in parallel: while a generator call made for one client's command
\* is outstanding, the radio read loop takes the chunk the radio sends and another
\* client's handler takes the chunk its client sends.
C6_ForwardingGoesOn ==
    \A i \in Slots :
        pc[Handler(i)] = "gen" =>
            /\ (pc[RadioTask] = "read" /\ Len(chunksIn[RadioTask]) < MaxRadioChunks)
                   => ENABLED RadioRecv(RadioHiFrame)
            /\ \A j \in Slots \ {i} :
                   (pc[Handler(j)] = "read" /\ conn[j] = "open" /\ nReads < MaxReads
                    /\ chunksIn[Handler(j)] = <<>>)
                       => ENABLED ClientRecv(j, HiFrame \o OpaqueFrame)

\* C7 Chunking independence: a reading task has intercepted as many /gem
\* commands as a frame codec whose buffer persists across the reads of its socket
\* has extracted from the bytes read.
C7_ChunkingIndependent ==
    \A t \in Readers : gotGem[t] = refGem[t]

\* C11 Client id uniqueness: the ids given out are positive, no two connections
\* ever accepted (registered still, or removed since) have the same id, a
\* connection accepted later has the greater id, and no id given out exceeds the
\* counter.
C11_IdsUnique ==
    \A i \in Slots :
        cid[i] # 0 =>
            /\ cid[i] >= 1
            /\ cid[i] <= client_id_counter
            /\ \A j \in Slots : (j # i /\ cid[j] # 0) => cid[j] # cid[i]
            /\ \A j \in Slots : (j > i /\ cid[j] # 0) => cid[j] > cid[i]

\* the first client was removed before the second was accepted: its id is free,
\* and the second client has another one
C11_Witness ==
    /\ cid[1] = 1 /\ cid[2] = 2
    /\ DOMAIN clients = {2}
    /\ conn[1] = "closed"

-----------------------------------------------------------------------------
(* Interceptor and injector, under SpecGem *)

\* send_ai_response of job j has passed its frame to radio_writer.write
Injected(j) == pc[Job(j)] \notin {"none", "delay", "rl_lock"}

\* The packet in the one frame of a chunk written to a socket
PacketOf(chunk) == DecodePacket(ParseChunk(chunk)[1].payload)
IsOneFrame(chunk, envelope) ==
    /\ Len(ParseChunk(chunk)) = 1
    /\ ParseChunk(chunk)[1].raw_frame = chunk
    /\ HasPacket(ParseChunk(chunk)[1].payload, envelope)

\* A text record with this text and channel was read by some reading task
WasRead(text, channel) ==
    \E t \in Readers : \E n \in 1..Len(chunksIn[t]) :
        \E k \in 1..Len(ParseChunk(chunksIn[t][n])) :
            LET parsed == try_parse_text_message(ParseChunk(chunksIn[t][n])[k].payload)
            IN  parsed.ok /\ parsed.text = text /\ parsed.channel = channel

RECURSIVE SumOver(_, _)
SumOver(S, f) ==
    IF S = {} THEN 0 ELSE LET x == CHOOSE y \in S : TRUE IN f[x] + SumOver(S \ {x}, f)

\* Commands a reading task has met in its frames loop, the one whose generator
\* call is in progress and those after it left out
Handled(t) == gotGem[t] - (IF pc[t] = "gen" THEN CountCommands(todo[t]) ELSE 0)

\* C12 One injected frame per command: a response job exists for each command
\* handled (so for each with a non-empty prompt); a job writes nothing to the
\* radio before its send and exactly one chunk from it on; that chunk is one
\* frame, a ToRadio envelope with a text-application packet to 0xFFFFFFFF, on
\* the channel of the text record that held the command (channel 0 too), with
\* want_ack, hop_limit 7, a non-zero id and, as body, the first 200 characters
\* at most of the reply.
C12_OneInjectedFrame ==
    /\ nJobs = SumOver(Readers, [t \in Readers |-> Handled(t)])
    /\ \A j \in JobIds :
        LET sent == radioTx[Job(j)]
        IN  /\ ~Injected(j) => sent = <<>>
            /\ Injected(j) =>
                /\ Len(sent) = 1
                /\ IsOneFrame(sent[1], TO_RADIO_PACKET)
                /\ PacketOf(sent[1]).portnum = TEXT_MESSAGE_APP
                /\ PacketOf(sent[1]).to = U32(65535, 65535)
                /\ PacketOf(sent[1]).channel = jobArgs[j].channel
                /\ WasRead(jobArgs[j].trigger, PacketOf(sent[1]).channel)
                /\ PacketOf(sent[1]).want_ack
                /\ PacketOf(sent[1]).hop_limit = 7
                /\ PacketOf(sent[1]).id # Zero32
                /\ Len(PacketOf(sent[1]).payload) <= 200
                /\ PacketOf(sent[1]).payload
                     = SubSeq(jobArgs[j].text, 1, Len(PacketOf(sent[1]).payload))
                /\ Len(jobArgs[j].text) <= 200
                     => PacketOf(sent[1]).payload = jobArgs[j].text

\* a command with a prompt came on channel 0, the reply was longer than 200
\* characters, and the job is over: the frame is on channel 0 with 200 of them
C12_Witness ==
    /\ pc[Job(1)] = "done"
    /\ jobArgs[1].trigger = TextGemHi
    /\ jobArgs[1].channel = 0
    /\ jobArgs[1].called
    /\ Len(jobArgs[1].text) > 200
    /\ Len(radioTx[Job(1)]) = 1
    /\ Len(PacketOf(radioTx[Job(1)][1]).payload) = 200
    /\ PacketOf(radioTx[Job(1)][1]).channel = 0

\* C13 Same packet to the clients: once a response job is over, every client
\* that was in the registry when its broadcast took the registry lock has been
\* written, by that job, exactly one chunk: one frame, a FromRadio envelope
\* whose packet equals, field by field (id, to, from, channel, want_ack,
\* hop_limit, portnum, body), the packet of the ToRadio frame the job wrote to
\* the radio.
C13_SamePacketToClients ==
    \A j \in JobIds :
        pc[Job(j)] = "done" =>
            \A k \in snap[Job(j)] :
                LET got == clientRx[SlotOf(k)][Job(j)]
                IN  /\ Len(got) = 1
                    /\ IsOneFrame(got[1], FROM_RADIO_PACKET)
                    /\ Len(radioTx[Job(j)]) = 1
                    /\ PacketOf(got[1]) = PacketOf(radioTx[Job(j)][1])

\* a response job is over that found two clients registered: both hold the
\* frame, which carries the id the radio was sent
C13_Witness ==
    /\ pc[Job(1)] = "done"
    /\ snap[Job(1)] = {1, 2}
    /\ \A i \in {1, 2} :
        /\ Len(clientRx[i][Job(1)]) = 1
        /\ PacketOf(clientRx[i][Job(1)][1]).id = U32(0, 1)
        /\ PacketOf(clientRx[i][Job(1)][1]).payload = MSG_NO_PROMPT

\* '/gem' alone or followed only by whitespace
IsBlankCommand(text) ==
    StartsWith(text, GEM_PREFIX) /\ Strip(Drop(text, Len(GEM_PREFIX))) = <<>>

\* C14 /gem with no prompt: whenever the text of a text record is "/gem" or
\* "/gem" followed only by whitespace, the reply handed to the injector is
\* "[Please provide a question after /gem]", and the generator is not called
\* for it (neither was, nor is being).
C14_NoPromptDiagnostic ==
    /\ \A j \in 1..nJobs :
        IsBlankCommand(jobArgs[j].trigger) =>
            jobArgs[j].text = MSG_NO_PROMPT /\ ~jobArgs[j].called
    /\ \A t \in Readers :
        pc[t] = "gen" =>
            ~IsBlankCommand(try_parse_text_message(Head(todo[t]).payload).text)

\* C15 Generator unavailable: with no AI handler, no reading task is ever
\* inside a generator call; every command handled has a response job whose
\* text is the fixed "[Gemini AI not available - GEMINI_API_KEY not set]",
\* made without a generator call, and the frame the job writes carries that
\* text; the reading tasks go on as for any chunk: a handler back at its read
\* has forwarded every chunk it read, the radio read loop back at its read has
\* written its last chunk to the clients registered at its broadcast.
C15_UnavailableDiagnostic ==
    ~aiAvailable =>
        /\ \A t \in Readers : pc[t] # "gen" /\ blocking # t
        /\ nJobs = SumOver(Readers, [t \in Readers |-> gotGem[t]])
        /\ \A j \in 1..nJobs :
            /\ jobArgs[j].text = MSG_NO_AI
            /\ ~jobArgs[j].called
            /\ Injected(j) => PacketOf(radioTx[Job(j)][1]).payload = MSG_NO_AI
        /\ \A t \in Handlers : pc[t] = "read" => radioTx[t] = chunksIn[t]
        /\ RadioBroadcastDone => \A k \in snap[RadioTask] : WrittenLatest(k)

\* no AI handler; a client's command with a prompt was answered with the fixed
\* text, and the client's handler has forwarded the chunk and reads again
C15_Witness ==
    /\ ~aiAvailable
    /\ pc[Job(1)] = "done"
    /\ jobArgs[1].trigger = TextGemHi
    /\ PacketOf(radioTx[Job(1)][1]).payload = MSG_NO_AI
    /\ pc[Handler(1)] = "read"
    /\ Len(chunksIn[Handler(1)]) = 1
    /\ radioTx[Handler(1)] = chunksIn[Handler(1)]

\* C16 Generator failed: when chat_respond raised for a command, the text
\* handed to the injector is "[AI Error: ", the first 100 characters at most
\* of the failure's message, and "]" (112 characters at most, so the injector
\* sends it whole); the job exists as for any command, and the reading task
\* goes on: a handler back at its read has forwarded every chunk it read, the
\* chunk of the command included, and the radio read loop back at its read
\* has broadcast its chunk.
C16_FailureReplied ==
    /\ nJobs = SumOver(Readers, [t \in Readers |-> Handled(t)])
    /\ \A j \in 1..nJobs :
        (jobArgs[j].called /\ ~jobArgs[j].outcome.ok) =>
            LET msg == jobArgs[j].outcome.text
                text == jobArgs[j].text
            IN  /\ Len(text) <= 112
                /\ Len(text) >= 12
                /\ SubSeq(text, 1, 11) = AI_ERROR_OPEN
                /\ text[Len(text)] = 93
                /\ SubSeq(text, 12, Len(text) - 1) = SubSeq(msg, 1, Len(text) - 12)
                /\ Len(text) - 12 = (IF Len(msg) < 100 THEN Len(msg) ELSE 100)
                /\ Injected(j) => PacketOf(radioTx[Job(j)][1]).payload = text
    /\ \A t \in Handlers : pc[t] = "read" => radioTx[t] = chunksIn[t]
    /\ RadioBroadcastDone => \A k \in snap[RadioTask] : WrittenLatest(k)

\* chat_respond raised with a message of more than 100 characters for a
\* client's command; the reply of 112 characters was injected, and the handler
\* has forwarded the chunk and reads again
C16_Witness ==
    /\ pc[Job(1)] = "done"
    /\ jobArgs[1].called
    /\ jobArgs[1].outcome = [ok |-> FALSE, text |-> LongFailure]
    /\ Len(PacketOf(radioTx[Job(1)][1]).payload) = 112
    /\ pc[Handler(1)] = "read"
    /\ Len(chunksIn[Handler(1)]) = 1
    /\ IsCommand(ParseChunk(chunksIn[Handler(1)][1])[1])
    /\ radioTx[Handler(1)] = chunksIn[Handler(1)]

-----------------------------------------------------------------------------
(* The radio link, under SpecLink and SpecLinkFair *)

\* 1, 2, 4, 8, 16, 30, 30, ...
BackoffSeries == [k \in 1..(MaxAttempts + 1) |-> IF k <= 5 THEN 2 ^ (k - 1) ELSE 30]

\* C17 Reconnect backoff: the delays a reconnect has slept so far are the first
\* terms of 1, 2, 4, 8, 16, 30, 30, ..., in every reconnect (the first delay
\* after any disconnect is 1); and the delay it sleeps next, or has just slept,
\* is the last of them.
C17_Backoff ==
    /\ Len(delays) <= MaxAttempts + 1
    /\ \A k \in 1..Len(delays) : delays[k] = BackoffSeries[k]
    /\ connector.task = "reconnect" /\ connector.pc \in {"sleep", "connecting"} =>
          delays # <<>> /\ connector.backoff = Last(delays)

\* the second reconnect (the first one succeeded, on the second socket) has
\* slept 1, 2, 4, 8, 16, 30 and 30 seconds
C17_Witness ==
    /\ sock = 2
    /\ connector.task = "reconnect"
    /\ delays = <<1, 2, 4, 8, 16, 30, 30>>

\* The id in a handshake frame
WantConfigId(frame) ==
    LET payload == ParseChunk(frame)[1].payload IN U32(payload[2], payload[3])
IsWantConfig(frame) ==
    /\ Len(ParseChunk(frame)) = 1
    /\ ParseChunk(frame)[1].raw_frame = frame
    /\ Len(ParseChunk(frame)[1].payload) = 3
    /\ ParseChunk(frame)[1].payload[1] = 3

\* C20 Handshake on connect: every radio socket the proxy has connected (the
\* first and each later one) has had exactly one handshake frame written on
\* it, a ToRadio with a want_config_id between 1 and 0xFFFFFFFF, and that
\* frame was the first write on the socket; a socket not yet connected has had
\* no write at all.
C20_HandshakeFirst ==
    \A g \in Sockets :
        IF g <= sock
        THEN /\ Len(handshakes[g]) = 1
             /\ IsWantConfig(handshakes[g][1])
             /\ WantConfigId(handshakes[g][1]) # <<0, 0>>
             /\ \A h \in 1..2 : WantConfigId(handshakes[g][1])[h] \in 0..65535
             /\ firstWrite[g] = "hs"
        ELSE handshakes[g] = <<>> /\ firstWrite[g] = "none"

\* the proxy is on its third socket, each socket having had its handshake,
\* and a client's bytes were forwarded twice meanwhile
C20_Witness ==
    /\ sock = 3
    /\ radio_connected
    /\ \A g \in 1..3 : Len(handshakes[g]) = 1
    /\ WantConfigId(handshakes[2][1]) = U32(65535, 65535)
    /\ Len(radioTx[Handler(1)]) = 2

\* A step that changes the state of the radio link: the latch, the socket in
\* use, a socket's state, the connecting task
LinkStep ==
    \/ radio_connected' # radio_connected
    \/ sock' # sock
    \/ sockState' # sockState
    \/ connector' # connector

\* A step in which a task writes to the radio on a socket that is not open
\* any more (the write or its drain fails)
FailedRadioWrite == radioTx' # radioTx /\ sockState[sock] # "open"

\* C19 A radio disconnect keeps the clients: no step that changes the state of
\* the radio link (the radio closing or resetting the connection, the read
\* loop meeting it, the reconnect's attempts, the new connection) and no
\* failed write to the radio changes the registry or the state of any client's
\* connection.
C19_ClientsKept ==
    [][(LinkStep \/ FailedRadioWrite) => (clients' = clients /\ conn' = conn)]_vars

\* the link is down and a reconnect is on its way; two clients are registered
\* with their connections open, the first one accepted before the loss (it is
\* in its read loop) and with two chunks passed to the radio writer
C19_Witness ==
    /\ ~radio_connected
    /\ connector.task = "reconnect"
    /\ DOMAIN clients = {1, 2}
    /\ conn[1] = "open" /\ conn[2] = "open"
    /\ pc[Handler(1)] = "read"
    /\ Len(radioTx[Handler(1)]) = 2

\* The radio has closed or reset socket g, the one in use, while the proxy runs
RadioGone(g) == running /\ sock = g /\ sockState[g] \in {"eof", "reset"}

\* The proxy is on a later socket than g, with that socket's handshake
\* written, the latch set and the read loop reading (what the radio sends on
\* the new socket is read and broadcast)
Resumed(g) ==
    /\ sock > g
    /\ handshakes[sock] # <<>>
    /\ radio_connected
    /\ pc[RadioTask] = "read"

StartupFailed == connector.task = "start" /\ connector.pc = "failed"

\* C21: if the initial radio connection cannot be established, no client is
\* ever accepted and the process terminates with a nonzero exit code.
C21_StartupFailure ==
    StartupFailed =>
        /\ \A i \in Slots : conn[i] = "none"
        /\ clients = <<>>
        /\ exitCode # NotExited
        /\ exitCode # EXIT_OK

\* C22: every reply text handed to the response injector (what
\* process_message returns: generated reply, fallback text, diagnostic or
\* error text) counts at most 600 characters once its whitespace is normalized.
C22_LengthUpperBound ==
    handed # None => Len(clean_whitespace(handed)) <= max_chars

\* A generated text longer than the limit, with no separator within it, has
\* been cut to exactly the limit and handed on
C22_Witness ==
    /\ aiPc = "handed"
    /\ aiOutcome.ok
    /\ Len(raw) > max_chars
    /\ handed = Prefix(raw, max_chars)
    /\ Len(handed) = max_chars

\* chat_respond has returned a text (it did not raise)
Replied == aiPc \in {"returned", "handed"} /\ aiOutcome.ok

\* C23: every text chat_respond returns counts between 200 and 600
\* characters: a first generation under 200 is expanded to 200 at least, one
\* over 600 is never cut below 200.
C23_LengthBand ==
    Replied => /\ Len(aiOutcome.text) >= min_chars
               /\ Len(aiOutcome.text) <= max_chars

\* C24: chat_respond makes at most 3 generate_content calls, and when none
\* of the 3 attempts produced a non-empty text it raises instead of
\* returning a reply.
C24_BoundedRetries ==
    /\ calls <= max_retries
    /\ (aiPc \in {"returned", "handed"} /\ raw = <<>>) => ~aiOutcome.ok

\* a can be obtained from b by leaving elements out
RECURSIVE IsSubsequence(_, _)
IsSubsequence(a, b) ==
    IF a = <<>> THEN TRUE
    ELSE IF b = <<>> THEN FALSE
    ELSE IF Head(a) = Head(b) THEN IsSubsequence(Tail(a), Tail(b))
    ELSE IsSubsequence(a, Tail(b))

\* C25: the chunks a client has received from the radio read loop are in the
\* order the radio emitted them (the read loop read them): of two chunks it
\* received both, the one emitted first came first.
C25_DownstreamOrder ==
    \A i \in Slots : IsSubsequence(clientRx[i][RadioTask], chunksIn[RadioTask])

\* The radio emitted two different chunks; one client received both, the
\* other one, accepted in between, the second only
C25_Witness ==
    /\ Len(chunksIn[RadioTask]) = 2
    /\ chunksIn[RadioTask][1] # chunksIn[RadioTask][2]
    /\ clientRx[1][RadioTask] = chunksIn[RadioTask]
    /\ clientRx[2][RadioTask] = <<chunksIn[RadioTask][2]>>

\* C26: the chunks read from one client are written to the radio in the
\* order they were read: the k-th write a handler makes is the k-th chunk it
\* read, whatever the other clients' handlers write in between.
C26_UpstreamFifo ==
    \A t \in Handlers :
        /\ Len(radioTx[t]) <= Len(chunksIn[t])
        /\ \A k \in 1..Len(radioTx[t]) : radioTx[t][k] = chunksIn[t][k]

\* One client's handler has read two different chunks and written both
C26_Witness ==
    \E t \in Handlers :
        /\ Len(chunksIn[t]) = 2
        /\ chunksIn[t][1] # chunksIn[t][2]
        /\ radioTx[t] = chunksIn[t]

\* Task t is suspended in client I/O: in broadcast_to_clients it has written
\* to a client and awaits drain(), or in _remove_client it has closed a
\* writer and awaits wait_closed()
AwaitsClientIO(t) ==
    \/ pc[t] = "bc_write" /\ Len(iter[t]) < Cardinality(snap[t])
    \/ pc[t] = "rm_closing"

\* C27: no task holds the registry lock (clients_lock) while it awaits a
\* client socket's drain or wait_closed.
C27_LockNotHeldAcrossIO ==
    \A t \in Tasks : AwaitsClientIO(t) => ~Holds(clients_lock, t)

\* Task t's send_to_radio ends in its except clause: the drain it awaited was
\* on a socket whose connection is lost
SendFailed(t) ==
    /\ pc[t] = "rl_drain"
    /\ pc'[t] # "rl_drain"
    /\ sockState[txSock[t]] = "reset"

\* C28: a failed write in send_to_radio takes the link to Disconnected as the
\* read loop's end of stream does: when the call returns the ready latch is
\* clear and a reconnect task is started.
C28_FailedWriteDisconnects ==
    [][\A t \in Senders : SendFailed(t) => (~radio_connected' /\ reconnects' > 0)]_vars

\* The write+drain pairs in flight on radio socket g: those of send_to_radio
\* callers, and the handshake's of the task inside connect_to_radio
WritesInFlight(g) ==
    Cardinality({t \in Senders : pc[t] = "rl_drain" /\ txSock[t] = g})
    + (IF connector.pc = "hs_drain" /\ sock = g THEN 1 ELSE 0)

\* C29: at most one write to the radio socket is in flight at any moment (a
\* forwarded chunk's, an injected frame's or the handshake's), and a
\* send_to_radio caller whose write is in flight holds the radio lock.
C29_OneWriteInFlight ==
    /\ \A g \in Sockets : WritesInFlight(g) <= 1
    /\ \A t \in Senders : pc[t] = "rl_drain" => Holds(radio_lock, t)

\* The radio link is Disconnected: the proxy runs, start() has made its
\* connection, and the ready latch is clear
Disconnected == running /\ ~radio_connected /\ connector.task # "start"

\* C30: whenever the radio link is Disconnected and the proxy is running,
\* exactly one reconnect task exists; there are never two.
C30_OneReconnect ==
    /\ reconnects <= 1
    /\ Disconnected => (reconnects = 1 /\ connector.task = "reconnect")

\* The link is Disconnected for the second time, its reconnect task has
\* failed to connect once and sleeps again, and a client is registered
C30_Witness ==
    /\ Disconnected
    /\ sock = 2
    /\ reconnects = 1
    /\ connector.pc = "sleep"
    /\ Len(delays) = 2
    /\ clients # <<>>

\* C31: the ready latch is set only when a handshake has been transmitted
\* successfully on the current radio socket: the step that sets it finds a
\* handshake written on the socket in use and the connection not lost.
C31_LatchAfterHandshake ==
    [][(~radio_connected /\ radio_connected')
         => (handshakes[sock] # <<>> /\ sockState[sock] # "reset")]_vars

\* Client i's handler puts the client into the registry in this step
Accepted(i) == cid[i] = 0 /\ cid'[i] # 0

\* C32: a client accepted while the ready latch is clear has none of its
\* bytes read or passed to the radio writer until the latch is set: its
\* handler waits, has read and written nothing while it waits, and leaves the
\* wait only in a step that finds the latch set.
C32_WaitsForLatch ==
    [][\A i \in Slots :
         /\ (Accepted(i) /\ ~radio_connected) => pc'[Handler(i)] = "wait_radio"
         /\ pc[Handler(i)] = "wait_radio" =>
               /\ chunksIn[Handler(i)] = <<>> /\ radioTx[Handler(i)] = <<>>
               /\ chunksIn'[Handler(i)] = <<>> /\ radioTx'[Handler(i)] = <<>>
               /\ (pc'[Handler(i)] # "wait_radio" => radio_connected)]_vars

\* The link is down, the reconnect task at work; a client has connected, is
\* registered and its handler waits for the latch
C32_Witness ==
    /\ Disconnected
    /\ connector.task = "reconnect"
    /\ conn[1] = "open"
    /\ 1 \in DOMAIN clients
    /\ pc[Handler(1)] = "wait_radio"

\* Client i is registered and its connection has met end of stream or an error
ReadEnded(i) == cid[i] \in DOMAIN clients /\ conn[i] \in {"eof", "reset"}

\* C33: on read end of stream or read error the client is eventually removed
\* from the registry.
C33_EventuallyRemoved ==
    \A i \in Slots : ReadEnded(i) ~> (cid[i] \notin DOMAIN clients)

\* Response job j has been created and has not returned
JobRunning(j) == pc[Job(j)] \notin {"none", "done"}
\* A write to a client has failed during the broadcast of response job k
JobWriteFailed(k) == disconnected[Job(k)] # <<>> \/ pc[Job(k)] \in {"rm_lock", "rm_closing"}

\* C34 Errors in one response job never affect others: when a write to a
\* client fails during the broadcast of one response job, every other response
\* job that has been created still completes (its radio send returns and its
\* client broadcast returns).
C34_OtherJobsComplete ==
    \A j, k \in JobIds :
        (j # k /\ JobWriteFailed(k) /\ JobRunning(j)) ~> (pc[Job(j)] = "done")

\* stop() has been called and has not returned
Stopping == pc[StopTask] \in {"stop_lock", "stop_radio"}

\* C35 Shutdown always completes: once stop() has been called it returns.
C35_StopReturns == Stopping ~> (pc[StopTask] = "done")

\* The length a header encodes: its third and fourth bytes, big-endian
EncodedLength(buf) == buf[3] * 256 + buf[4]
MAX_LENGTH == 65535     \* the largest uint16

\* C36 Codec buffer bound: after every add_data call the buffer is shorter than
\* the header, or begins with the magic pair and is shorter than the frame its
\* header announces (so shorter than 4 + 65535 bytes); when the bytes fed so far
\* hold no magic pair it holds at most 3 bytes.
C36_BufferBound ==
    /\ \/ Len(cBuf) < HEADER_SIZE
       \/ /\ Take(cBuf, 2) = MESHTASTIC_MAGIC
          /\ Len(cBuf) < HEADER_SIZE + EncodedLength(cBuf)
    /\ Len(cBuf) < HEADER_SIZE + MAX_LENGTH
    /\ ~HasMagic(Take(cIn, cPos)) => Len(cBuf) <= HEADER_SIZE - 1

\* the parser keeps, across two calls, the header and part of the payload of a
\* frame whose length uses the high byte
C36_Witness ==
    /\ cCalls = 2
    /\ Len(cBuf) > HEADER_SIZE
    /\ EncodedLength(cBuf) > 255
    /\ cOut = <<>>

\* The 1-based positions at which a boundary lies within the first 600
\* characters of s
BoundaryStarts(s) ==
    {i \in 1..max_chars :
        \E p \in Boundaries :
            i + Len(p) - 1 <= max_chars /\ SubSeq(s, i, i + Len(p) - 1) = p}
LatestBoundary(s) == CHOOSE i \in BoundaryStarts(s) : \A j \in BoundaryStarts(s) : j <= i
\* The prefix of s ending at the boundary that begins at i: with its
\* punctuation mark when it has one, without its whitespace
EndingAt(s, i) == IF s[i] \in Whitespace THEN Prefix(s, i - 1) ELSE Prefix(s, i)
TruncationRule(s) ==
    IF BoundaryStarts(s) = {} THEN RStrip(Prefix(s, max_chars))
    ELSE EndingAt(s, LatestBoundary(s))

\* C37 Truncation rule: when the generated text, whitespace-normalized, is
\* longer than 600 characters, the text chat_respond returns is its prefix
\* ending at the latest boundary lying within the first 600 characters, or,
\* with no such boundary, its first 600 characters less trailing whitespace.
C37_TruncationRule ==
    (Replied /\ Len(clean_whitespace(raw)) > max_chars) =>
        aiOutcome.text = TruncationRule(clean_whitespace(raw))

\* a text with two boundaries within the limit was cut at the later one
C37_Witness ==
    /\ Replied
    /\ Len(clean_whitespace(raw)) > max_chars
    /\ Cardinality(BoundaryStarts(clean_whitespace(raw))) = 2
    /\ Len(aiOutcome.text) = LatestBoundary(clean_whitespace(raw))
    /\ aiOutcome.text[Len(aiOutcome.text)] = 33

\* C38: as long as the bytes a reading task has read hold no text record
\* beginning with "/gem" (none is extracted by a frame codec kept across its
\* reads), no generator call is made and no response job is created, so no
\* frame is injected.
C38_OnlyCommandsTrigger ==
    (\A t \in Readers : refGem[t] = 0) =>
        /\ nJobs = 0
        /\ \A t \in Readers : pc[t] # "gen"

\* Steps of response job j: a write to the radio writer, a write to a client,
\* the return of its send_to_radio call
JobWritesRadio(j) == radioTx'[Job(j)] # radioTx[Job(j)]
JobWritesClient(j) == \E i \in Slots : clientRx'[i][Job(j)] # clientRx[i][Job(j)]
SendReturns(j) == pc[Job(j)] = "rl_drain" /\ pc'[Job(j)] # "rl_drain"

\* C39 Order of a response job's steps: the job writes its frame to the radio
\* in a step after the one that created it (the response delay lies between),
\* and before any write to a client; it writes to clients only after its
\* send_to_radio has returned; and when send_to_radio returns, with True or
\* with False, the job calls broadcast_to_clients with the forged frame.
C39_JobStepOrder ==
    [][\A j \in JobIds :
         /\ JobWritesRadio(j) =>
               /\ pc[Job(j)] \in {"delay", "rl_lock"}
               /\ radioTx[Job(j)] = <<>>
               /\ \A i \in Slots : clientRx[i][Job(j)] = <<>>
         /\ JobWritesClient(j) =>
               /\ pc[Job(j)] = "bc_write"
               /\ radioTx[Job(j)] # <<>>
               /\ jobArgs[j].sent # "none"
         /\ SendReturns(j) =>
               /\ pc'[Job(j)] \in {"bc_lock", "bc_write"}
               /\ data'[Job(j)] =
                     BuildFrame(EncodePacket(FROM_RADIO_PACKET, jobArgs[j].packet))]_vars

\* a job whose send_to_radio returned False has written its forged frame to a
\* client and returned
C39_Witness ==
    \E j \in JobIds :
        /\ jobArgs[j].sent = "failed"
        /\ pc[Job(j)] = "done"
        /\ \E i \in Slots :
              clientRx[i][Job(j)] = <<BuildFrame(EncodePacket(FROM_RADIO_PACKET, jobArgs[j].packet))>>
=============================================================================
